---- MODULE Spec2Model ----
(***************************************************************************)
(* The node registry, the pubsub subscription registry, the P2P listener   *)
(* tables and CleanupNode of libkubo, as a state machine of threads that   *)
(* call the exported operations concurrently.                              *)
(***************************************************************************)
EXTENDS Integers, Sequences, FiniteSets, TLC

\* ------------------------------------------------------------- bounds
\* direct AcquireNode / ReleaseNode calls made in one run of SpecRegistry
MaxCalls == 4
\* calls of exported operations made in one run of the other specifications
MaxOps == 3
\* open streams of a runtime instance
MaxStreams == 1
\* messages the runtime produces in one run, over all subscriptions
MaxMsgs == 2

\* ------------------------------------------------------------- universe
Paths == {"A", "B"}
Threads == {"t1", "t2", "t3"}
\* the threads that call the exported operations in Spec
ApiThreads == {"t1", "t2"}
\* the repo path the runs of Spec work on
CleanupPaths == {"A"}
Topics == {"news"}
\* the topics of the runs of SpecMessages
MsgTopics == {"news", "chat"}
\* the (repoPath, topic) pairs subscribed to in SpecMessages
MsgSubscribeArgs == {<<"A", "news">>, <<"B", "chat">>}
\* protocol names are strings of characters, here as sequences
XPrefix == <<"/", "x", "/">>
\* the protocol name the runs of Spec use
Protocols == {<<"e">>}
\* multiaddrs that parse, and one that does not
ListenAddr == "/ip4/127.0.0.1/tcp/8"
TargetAddr == "/ip4/127.0.0.1/tcp/9"
BadAddr == "127.0.0.1:9"
WellFormedAddrs == {ListenAddr, TargetAddr}
\* peer ids that decode, and one that does not
PeerID == "QmPeer"
BadPeerID == "peer?"
WellFormedPeerIDs == {PeerID}
Unlocked == "unlocked"

VARIABLES
    activeNodes,        \* map repoPath -> NodeInfo [Node, RefCount]
    activeNodesMutex,   \* Unlocked, or the thread holding the mutex
    nodes,              \* every runtime instance constructed so far, by instance id
    pc,                 \* per thread: its position in the operation it runs
    loc,                \* per thread: the arguments and locals of that operation
    obs,                \* per thread: what is recorded of the running call (state at entry, stages finished)
    callLog,            \* per path: the direct AcquireNode / ReleaseNode calls, in order
    subscriptions,      \* map subID -> subscriptionInfo
    subscriptionsMutex, \* Unlocked, or the thread holding the mutex
    nextSubID,          \* the id the next subscription gets
    subInfos,           \* every subscriptionInfo object allocated so far, by address
    receivers,          \* every messageReceiver goroutine started so far
    subLog,             \* per subscriptionInfo: the messages PubSubNextMessage returned
                        \* from it and the ReleaseNode calls PubSubUnsubscribe made for it
    calls,              \* the calls of exported operations made so far
    opLog,              \* the calls the sequential caller has made, in order, with the
                        \* status each returned
    repos               \* per path: the repository on disk

regVars == <<activeNodes, activeNodesMutex, nodes>>
msgVars == <<subInfos, receivers, subLog>>
subVars == <<subscriptions, subscriptionsMutex, nextSubID, subInfos, receivers, subLog>>
envVars == <<opLog, repos>>
vars == <<activeNodes, activeNodesMutex, nodes, pc, loc, obs, callLog,
          subscriptions, subscriptionsMutex, nextSubID, subInfos, receivers, subLog, calls,
          opLog, repos>>

\* ------------------------------------------------------------- helpers
\* delete(m, k) of a Go map
Delete(m, k) == [x \in (DOMAIN m) \ {k} |-> m[x]]
\* m[k] = v of a Go map
Put(m, k, v) == [x \in (DOMAIN m) \cup {k} |-> IF x = k THEN v ELSE m[x]]

\* _, exists := activeNodes[p]
Registered(p) == p \in DOMAIN activeNodes

\* a runtime instance as core.NewNode returns it: open, no listeners
NewNode(p) ==
    [repo |-> p, closes |-> 0, ListenersP2P |-> <<>>, ListenersLocal |-> <<>>, Streams |-> <<>>]

\* node.Close() on instance i
Close(ns, i) ==
    [ns EXCEPT ![i].closes = @ + 1, ![i].ListenersP2P = <<>>,
               ![i].ListenersLocal = <<>>, ![i].Streams = <<>>]

\* the instances constructed for path p
InstancesOf(p) == {i \in 1..Len(nodes) : nodes[i].repo = p}

RECURSIVE SumCloses(_)
SumCloses(S) ==
    IF S = {} THEN 0
    ELSE LET i == CHOOSE x \in S : TRUE IN nodes[i].closes + SumCloses(S \ {i})

\* Close calls made so far on the instances of path p
ClosesOf(p) == SumCloses(InstancesOf(p))

\* ------------------------------------------------------------- the registry
MutexFree_NoLock(m) == TRUE
\* sync.Mutex: Lock() returns only while no thread holds it
MutexFree(m) == m = Unlocked

ReleaseNode_KeepsEntry(an, ns, p) ==
    IF p \notin DOMAIN an
    THEN [activeNodes |-> an, nodes |-> ns]
    ELSE IF an[p].RefCount - 1 <= 0
         THEN [activeNodes |-> [an EXCEPT ![p].RefCount = @ - 1],
               nodes |-> Close(ns, an[p].Node)]
         ELSE [activeNodes |-> [an EXCEPT ![p].RefCount = @ - 1], nodes |-> ns]

ReleaseNode_ClosesEarly(an, ns, p) ==
    IF p \notin DOMAIN an
    THEN [activeNodes |-> an, nodes |-> ns]
    ELSE IF an[p].RefCount - 1 <= 1
         THEN [activeNodes |-> Delete(an, p), nodes |-> Close(ns, an[p].Node)]
         ELSE [activeNodes |-> [an EXCEPT ![p].RefCount = @ - 1], nodes |-> ns]

\* the body of ReleaseNode(p) under activeNodesMutex: the registry after it
ReleaseNode(an, ns, p) ==
    IF p \notin DOMAIN an
    THEN [activeNodes |-> an, nodes |-> ns]
    ELSE IF an[p].RefCount - 1 <= 0
         THEN [activeNodes |-> Delete(an, p), nodes |-> Close(ns, an[p].Node)]
         ELSE [activeNodes |-> [an EXCEPT ![p].RefCount = @ - 1], nodes |-> ns]

\* ------------------------------------------------------------- threads
NoPaths == [p \in Paths |-> 0]

\* a nil message
NoMsg == [Data |-> <<>>, Topics |-> <<>>, TopicID |-> "none"]

\* no configuration: config.Init has not run
NoConfig == [by |-> "none", call |-> 0]

\* a path with no repository on it
NoRepo == [initialized |-> FALSE, config |-> NoConfig]

\* the arguments of the operations besides the path and the protocol name
NoArgs ==
    [listenAddr |-> "", targetAddr |-> "", peerID |-> "", all |-> FALSE,
     listeners |-> FALSE, forwarders |-> FALSE, cid |-> "", peerAddr |-> ""]

\* the listing of P2PListListeners before it is made
NoListing == [Forwards |-> <<>>, Listens |-> <<>>, Streams |-> <<>>]

IdleLoc ==
    [op |-> "none", fn |-> "none", path |-> "none", node |-> 0, ret |-> 0,
     subID |-> 0, topic |-> "none", proto |-> "none", toRelease |-> NoPaths,
     subInfo |-> 0, msg |-> NoMsg, args |-> NoArgs, listing |-> NoListing,
     stage |-> "none", name |-> <<>>, cfg |-> NoConfig]

IdleObs ==
    [hadHandle |-> FALSE, refBefore |-> 0, nodeBefore |-> 0, solo |-> FALSE,
     closed |-> NoPaths, released |-> NoPaths, stages |-> <<>>,
     closeErrs |-> {}, failed |-> {}]


Init ==
    /\ activeNodes = <<>>
    /\ activeNodesMutex = Unlocked
    /\ nodes = <<>>
    /\ pc = [t \in Threads |-> "idle"]
    /\ loc = [t \in Threads |-> IdleLoc]
    /\ obs = [t \in Threads |-> IdleObs]
    /\ callLog = [p \in Paths |-> <<>>]
    /\ subscriptions = <<>>
    /\ subscriptionsMutex = Unlocked
    /\ nextSubID = 1
    /\ subInfos = <<>>
    /\ receivers = <<>>
    /\ subLog = <<>>
    /\ calls = 0
    /\ opLog = <<>>
    /\ repos = [p \in Paths |-> NoRepo]

RefCountOf(p) == IF Registered(p) THEN activeNodes[p].RefCount ELSE 0

\* the calls the bounds MaxCalls and MaxOps count: all but the polls, which change
\* nothing once the queues are empty
Counted(op) == op # "PubSubNextMessage"

\* thread t calls an exported operation: l holds the operation (op), its arguments and
\* the function whose body runs first (fn), at position first
Call(t, first, l) ==
    /\ pc[t] = "idle"
    /\ IF Counted(l.op)
       THEN /\ calls < (IF l.op \in {"AcquireNode", "ReleaseNode"} THEN MaxCalls ELSE MaxOps)
            /\ calls' = calls + 1
       ELSE UNCHANGED calls
    /\ pc' = [pc EXCEPT ![t] = first]
    /\ loc' = [loc EXCEPT ![t] = l]
    /\ obs' = [u \in Threads |->
                 IF u = t
                 THEN [IdleObs EXCEPT
                         !.hadHandle = Registered(l.path),
                         !.refBefore = RefCountOf(l.path),
                         !.nodeBefore = IF Registered(l.path) THEN activeNodes[l.path].Node ELSE 0,
                         !.solo = \A v \in Threads \ {t} : pc[v] = "idle"]
                 ELSE IF pc[u] = "idle" THEN obs[u] ELSE [obs[u] EXCEPT !.solo = FALSE]]
    /\ UNCHANGED <<regVars, subVars, callLog, envVars>>

\* the locals at the entry of operation op on path p
Entry(op, p) == [IdleLoc EXCEPT !.op = op, !.fn = op, !.path = p]

IsDirect(t) == loc[t].op \in {"AcquireNode", "ReleaseNode"}

Record(t, p, ev) ==
    /\ IF IsDirect(t)
       THEN callLog' = [callLog EXCEPT ![p] = Append(@, ev)]
       ELSE UNCHANGED callLog
    /\ UNCHANGED <<calls, envVars>>

CleanupNextStage_SubscriptionsFirst(fn) ==
    CASE fn = "P2PCloseAllListeners" -> "PubSubCloseRepoSubscriptions"
      [] fn = "PubSubCloseRepoSubscriptions" -> "P2PCloseAllForwards"
      [] OTHER -> "forceClose"

\* CleanupNode, lines 311-319: the call that follows the call of fn
CleanupNextStage(fn) ==
    CASE fn = "P2PCloseAllListeners" -> "P2PCloseAllForwards"
      [] fn = "P2PCloseAllForwards" -> "PubSubCloseRepoSubscriptions"
      [] OTHER -> "forceClose"

\* where the body of a stage of CleanupNode starts
StagePc(fn) ==
    CASE fn \in {"P2PCloseAllListeners", "P2PCloseAllForwards"} -> "acquire"
      [] fn = "PubSubCloseRepoSubscriptions" -> "closeRepo"
      [] OTHER -> "forceClose"

\* the thread (position, locals, record) once the function l.fn has returned ret:
\* CleanupNode drops the status and goes on to its next call, others return to the caller
Returned(l, o, ret) ==
    IF l.op = "CleanupNode"
    THEN LET nxt == CleanupNextStage(l.fn) IN
         [pc |-> StagePc(nxt),
          loc |-> [l EXCEPT !.fn = nxt, !.node = 0, !.ret = 0, !.toRelease = NoPaths],
          obs |-> [o EXCEPT !.stages = Append(@, l.fn),
                            !.failed = IF ret < 0 THEN @ \cup {l.fn} ELSE @]]
    ELSE [pc |-> "done", loc |-> [l EXCEPT !.ret = ret], obs |-> o]

SetThread(t, r) ==
    /\ pc' = [pc EXCEPT ![t] = r.pc]
    /\ loc' = [loc EXCEPT ![t] = r.loc]
    /\ obs' = [obs EXCEPT ![t] = r.obs]

\* the status fn returns when its AcquireNode call failed
AcquireErrRet(fn) ==
    CASE fn = "RunNode" -> 0
      [] OTHER -> -1

\* go_src: the operations that obtain the node through spawnNodeFunc, which init binds to
\* AcquireNode (repo.go:45), and defer node.Close()
SpawnNodeOps == {"go_src.AddFile", "go_src.GetFile", "go_src.ConnectToPeer"}

\* the short-lived operations whose body only queries the runtime or publishes through it:
\* each returns a string (nil or an empty list when it fails), PubSubPublish a status
QueryOps ==
    {"AddFile", "ListPins", "ListPeers", "FindPeer", "GetNodeID", "PubSubPublish",
     "PubSubListTopics", "PubSubPeers"}

AfterAcquire_EnableKeepsBorrow(fn) ==
    CASE fn = "P2PEnable" -> "done"
      [] fn = "PubSubSubscribe" -> "subscribe"
      [] fn = "P2PListen" -> "listen"
      [] fn = "P2PForward" -> "forward"
      [] fn = "P2PCloseAllListeners" -> "closeListeners"
      [] fn = "P2PCloseAllForwards" -> "closeForwards"
      [] fn = "P2PClose" -> "p2pClose"
      [] fn = "P2PListListeners" -> "listListeners"
      [] fn \in {"Download", "PinCID", "UnpinCID", "ConnectToPeer"} -> "body"
      [] fn \in QueryOps -> "query"
      [] fn \in SpawnNodeOps -> "spawned"
      [] OTHER -> "return"

AfterAcquire_ListClosesListeners(fn) ==
    CASE fn = "P2PEnable" -> "release"
      [] fn = "PubSubSubscribe" -> "subscribe"
      [] fn = "P2PListen" -> "listen"
      [] fn = "P2PForward" -> "forward"
      [] fn = "P2PCloseAllListeners" -> "closeListeners"
      [] fn = "P2PCloseAllForwards" -> "closeForwards"
      [] fn = "P2PClose" -> "p2pClose"
      [] fn = "P2PListListeners" -> "closeListeners"
      [] fn \in QueryOps -> "query"
      [] fn \in SpawnNodeOps -> "spawned"
      [] OTHER -> "return"

\* where the function fn continues once its AcquireNode call has returned a node
AfterAcquire(fn) ==
    CASE fn = "P2PEnable" -> "release"
      [] fn = "PubSubSubscribe" -> "subscribe"
      [] fn = "P2PListen" -> "listen"
      [] fn = "P2PForward" -> "forward"
      [] fn = "P2PCloseAllListeners" -> "closeListeners"
      [] fn = "P2PCloseAllForwards" -> "closeForwards"
      [] fn = "P2PClose" -> "p2pClose"
      [] fn = "P2PListListeners" -> "listListeners"
      [] fn \in {"Download", "PinCID", "UnpinCID", "ConnectToPeer"} -> "body"
      [] fn \in QueryOps -> "query"
      [] fn \in SpawnNodeOps -> "spawned"
      [] OTHER -> "return"

\* the thread once AcquireNode has returned instance inst to l.fn
Acquired(l, o, inst) ==
    LET l2 == [l EXCEPT !.node = inst] IN
    CASE l.fn = "AcquireNode" -> Returned(l2, o, 0)
      [] l.fn = "RunNode" -> Returned(l2, o, 1)
      [] OTHER -> [pc |-> AfterAcquire(l.fn), loc |-> [l2 EXCEPT !.ret = 1], obs |-> o]

\* AcquireNode, lines 94-103: lock, look the path up, reuse a registered node
AcquireNode_Enter(t) ==
    /\ pc[t] = "acquire"
    /\ MutexFree(activeNodesMutex)
    /\ LET p == loc[t].path IN
       IF Registered(p)
       THEN /\ activeNodes' = [activeNodes EXCEPT ![p].RefCount = @ + 1]
            /\ SetThread(t, Acquired(loc[t], obs[t], activeNodes[p].Node))
            /\ Record(t, p, "acq")
            /\ UNCHANGED <<activeNodesMutex, nodes>>
       ELSE /\ activeNodesMutex' = t
            /\ pc' = [pc EXCEPT ![t] = "createNewNode"]
            /\ UNCHANGED <<activeNodes, nodes, loc, obs, callLog, calls, envVars>>
    /\ UNCHANGED subVars

CreateAndRegister_KeepsFailed(an, ns, p, ok) ==
    IF ok
    THEN [activeNodes |-> Put(an, p, [Node |-> Len(ns) + 1, RefCount |-> 1]),
          nodes |-> Append(ns, NewNode(p))]
    ELSE [activeNodes |-> Put(an, p, [Node |-> Len(ns) + 1, RefCount |-> 0]),
          nodes |-> Append(ns, NewNode(p))]

\* AcquireNode, lines 107-119: the registry after createNewNode has returned a node (ok)
\* or an error
CreateAndRegister(an, ns, p, ok) ==
    IF ok
    THEN [activeNodes |-> Put(an, p, [Node |-> Len(ns) + 1, RefCount |-> 1]),
          nodes |-> Append(ns, NewNode(p))]
    ELSE [activeNodes |-> an, nodes |-> ns]

\* AcquireNode, lines 107-119: createNewNode, then register with RefCount 1
AcquireNode_Create(t) ==
    /\ pc[t] = "createNewNode"
    /\ LET p == loc[t].path IN
       \E ok \in BOOLEAN :
          LET r == CreateAndRegister(activeNodes, nodes, p, ok) IN
          /\ nodes' = r.nodes
          /\ activeNodes' = r.activeNodes
          /\ IF ok
             THEN /\ SetThread(t, Acquired(loc[t], obs[t], Len(nodes) + 1))
                  /\ Record(t, p, "acq")
             ELSE /\ SetThread(t, Returned(loc[t], obs[t], AcquireErrRet(loc[t].fn)))
                  /\ Record(t, p, "fail")
    /\ activeNodesMutex' = Unlocked
    /\ UNCHANGED subVars

\* ReleaseNode, lines 137-155, called (deferred) by the function loc[t].fn
ReleaseNode_Call(t) ==
    /\ pc[t] = "release"
    /\ MutexFree(activeNodesMutex)
    /\ LET p == loc[t].path
           r == ReleaseNode(activeNodes, nodes, p) IN
       /\ activeNodes' = r.activeNodes
       /\ nodes' = r.nodes
       /\ Record(t, p, "rel")
    /\ SetThread(t, Returned(loc[t], obs[t], loc[t].ret))
    /\ UNCHANGED <<activeNodesMutex, subVars>>

\* the caller whose calls are made one after the other and logged
Logged == {"t3"}

\* a returned call as the log keeps it
LogEntry(l) == [op |-> l.op, path |-> l.path, proto |-> l.proto, args |-> l.args, ret |-> l.ret]

\* the operation returns to its caller
Return(t) ==
    /\ pc[t] = "done"
    /\ pc' = [pc EXCEPT ![t] = "idle"]
    /\ loc' = [loc EXCEPT ![t] = IdleLoc]
    /\ obs' = [obs EXCEPT ![t] = IdleObs]
    /\ opLog' = IF t \in Logged /\ ~IsDirect(t) THEN Append(opLog, LogEntry(loc[t])) ELSE opLog
    /\ UNCHANGED <<regVars, subVars, callLog, calls, repos>>

\* a caller invokes AcquireNode(p) directly
Call_AcquireNode(t, p) == Call(t, "acquire", Entry("AcquireNode", p))

\* a caller invokes ReleaseNode(p) directly
Call_ReleaseNode(t, p) == Call(t, "release", Entry("ReleaseNode", p))

NextRegistry ==
    \E t \in Threads :
        \/ \E p \in Paths : Call_AcquireNode(t, p)
        \/ \E p \in Paths : Call_ReleaseNode(t, p)
        \/ AcquireNode_Enter(t)
        \/ AcquireNode_Create(t)
        \/ ReleaseNode_Call(t)
        \/ Return(t)

\* callers that use the registry directly: AcquireNode and ReleaseNode only
SpecRegistry == Init /\ [][NextRegistry]_vars

\* ------------------------------------------------------------- short-lived operations
\* RunNode(p): AcquireNode and keep the borrow
Call_RunNode(t, p) == Call(t, "acquire", Entry("RunNode", p))

\* P2PEnable(p): AcquireNode, defer ReleaseNode, return 1
Call_P2PEnable(t, p) == Call(t, "acquire", Entry("P2PEnable", p))

\* ------------------------------------------------------------- pubsub
SubsOf_AnyPath(subs, p) == DOMAIN subs

\* the subscriptions of repo path p
SubsOf(subs, p) == {id \in DOMAIN subs : subs[id].repoPath = p}

Restrict(m, keys) == [x \in keys |-> m[x]]

NextID_Reused(n) == n

\* nextSubID++
NextID(n) == n + 1

\* the runtime's subscription object api.PubSub().Subscribe returns for the topic:
\* the messages it holds for Next, how many it has been given, whether it is closed
NewSubscription(topic) == [topic |-> topic, inbox |-> <<>>, sent |-> 0, closed |-> FALSE]

\* &subscriptionInfo{...} of PubSubSubscribe
NewSubInfo(topic, p) ==
    [topic |-> topic, subscription |-> NewSubscription(topic), messageQueue |-> <<>>,
     cancelled |-> FALSE, repoPath |-> p]

\* go messageReceiver(subID, subscription, topic): subscription is the one of object k
NewReceiver(subID, k, topic) ==
    [subID |-> subID, subscription |-> k, topic |-> topic, pc |-> "lookup",
     subInfo |-> 0, msg |-> NoMsg]

\* subInfo.cancel() and subInfo.subscription.Close() on the objects ks
CancelAndClose(infos, ks) ==
    [k \in DOMAIN infos |->
        IF k \in ks
        THEN [infos[k] EXCEPT !.cancelled = TRUE, !.subscription.closed = TRUE]
        ELSE infos[k]]

\* the objects the ids of the map point to
InfosOf(subs, ids) == {subs[id].subInfo : id \in ids}

Call_PubSubSubscribe(t, p, topic) ==
    Call(t, "acquire", [Entry("PubSubSubscribe", p) EXCEPT !.topic = topic])

SubscribeFailed_NoRelease(l, o) ==
    [pc |-> "done", loc |-> [l EXCEPT !.ret = -2], obs |-> o]

\* PubSubSubscribe, lines 128-133: Subscribe failed, ReleaseNode(path), return -2
SubscribeFailed(l, o) ==
    [pc |-> "release", loc |-> [l EXCEPT !.ret = -2], obs |-> o]

\* PubSubSubscribe, lines 124-156, after AcquireNode returned a node
PubSubSubscribe_Register(t) ==
    /\ pc[t] = "subscribe"
    /\ \/ \* api.PubSub().Subscribe failed: release the node, return -2
          /\ SetThread(t, SubscribeFailed(loc[t], obs[t]))
          /\ UNCHANGED subVars
       \/ \* it succeeded: take the next id and store the subscription
          /\ MutexFree(subscriptionsMutex)
          /\ subscriptions' = Put(subscriptions, nextSubID,
                                  [topic |-> loc[t].topic, repoPath |-> loc[t].path,
                                   cancelled |-> FALSE, subInfo |-> Len(subInfos) + 1])
          /\ nextSubID' = NextID(nextSubID)
          /\ subInfos' = Append(subInfos, NewSubInfo(loc[t].topic, loc[t].path))
          /\ receivers' = Append(receivers,
                                 NewReceiver(nextSubID, Len(subInfos) + 1, loc[t].topic))
          /\ subLog' = Append(subLog, [polled |-> <<>>, released |-> 0])
          /\ SetThread(t, Returned([loc[t] EXCEPT !.subID = nextSubID], obs[t], nextSubID))
          /\ UNCHANGED subscriptionsMutex
    /\ UNCHANGED <<regVars, callLog, calls, envVars>>

Unsubscribed_Kept(subs, id) == subs

\* PubSubUnsubscribe, line 283: delete(subscriptions, id)
Unsubscribed(subs, id) == Delete(subs, id)

UnsubscribeNotFound_Ok(l, o) == Returned(l, o, 0)

\* PubSubUnsubscribe, lines 265-269: the id is not in the map, return -1
UnsubscribeNotFound(l, o) == Returned(l, o, -1)

Call_PubSubUnsubscribe(t, id) ==
    Call(t, "unsubscribe", [Entry("PubSubUnsubscribe", "none") EXCEPT !.subID = id])

\* PubSubUnsubscribe, lines 262-277: lock, look the id up, cancel and close
PubSubUnsubscribe_Lookup(t) ==
    /\ pc[t] = "unsubscribe"
    /\ MutexFree(subscriptionsMutex)
    /\ LET id == loc[t].subID IN
       IF id \notin DOMAIN subscriptions
       THEN /\ SetThread(t, UnsubscribeNotFound(loc[t], obs[t]))
            /\ UNCHANGED subVars
       ELSE /\ subscriptionsMutex' = t
            /\ subscriptions' = [subscriptions EXCEPT ![id].cancelled = TRUE]
            /\ subInfos' = CancelAndClose(subInfos, {subscriptions[id].subInfo})
            /\ pc' = [pc EXCEPT ![t] = "unsubRelease"]
            /\ loc' = [loc EXCEPT ![t].path = subscriptions[id].repoPath,
                                  ![t].subInfo = subscriptions[id].subInfo]
            /\ \E failing \in SUBSET {id} : \* Close may return an error: it is logged
                  obs' = [obs EXCEPT ![t].closeErrs = failing]
            /\ UNCHANGED <<nextSubID, receivers, subLog>>
    /\ UNCHANGED <<regVars, callLog, calls, envVars>>

\* PubSubUnsubscribe, lines 280-285: ReleaseNode, remove from the map, unlock
PubSubUnsubscribe_Release(t) ==
    /\ pc[t] = "unsubRelease"
    /\ MutexFree(activeNodesMutex)
    /\ LET r == ReleaseNode(activeNodes, nodes, loc[t].path) IN
       /\ activeNodes' = r.activeNodes
       /\ nodes' = r.nodes
    /\ subscriptions' = Unsubscribed(subscriptions, loc[t].subID)
    /\ subLog' = [subLog EXCEPT ![loc[t].subInfo].released = @ + 1]
    /\ subscriptionsMutex' = Unlocked
    /\ SetThread(t, Returned(loc[t], obs[t], 0))
    /\ UNCHANGED <<activeNodesMutex, nextSubID, subInfos, receivers, callLog, calls, envVars>>

LoopCovers_StopsAtError(ids, failing) == IF failing = {} THEN ids ELSE failing

\* the subscriptions the loop of a bulk close cancels, closes and deletes when Close
\* returns an error for those in failing (lines 366-376, 401-417: the error is logged)
LoopCovers(ids, failing) == ids

\* how many subscriptions of each path are in the set ids
ClosedPerPath(subs, ids) ==
    [p \in Paths |-> Cardinality({id \in ids : subs[id].repoPath = p})]

CloseRepoReleases_PerSubscription(path, subsToClose) ==
    [p \in Paths |-> IF p = path THEN Cardinality(subsToClose) ELSE 0]

\* PubSubCloseRepoSubscriptions, lines 359-381: the ReleaseNode calls it makes, per path
\* (needReleaseNode: one call for its path)
CloseRepoReleases(path, subsToClose) ==
    [p \in Paths |-> IF p = path THEN 1 ELSE 0]

\* PubSubCloseAllSubscriptions, lines 397-422: releasedPaths, one ReleaseNode call each
CloseAllReleases(subs) ==
    [p \in Paths |-> IF \E id \in DOMAIN subs : subs[id].repoPath = p THEN 1 ELSE 0]

Call_PubSubCloseRepoSubscriptions(t, p) ==
    Call(t, "closeRepo", Entry("PubSubCloseRepoSubscriptions", p))

\* PubSubCloseRepoSubscriptions, lines 342-376: lock, collect, cancel, close, delete
PubSubCloseRepoSubscriptions_Close(t) ==
    /\ pc[t] = "closeRepo"
    /\ MutexFree(subscriptionsMutex)
    /\ LET path == loc[t].path
           subsToClose == SubsOf(subscriptions, path) IN
       IF subsToClose = {}
       THEN /\ SetThread(t, Returned(loc[t], obs[t], 0))
            /\ UNCHANGED subVars
       ELSE \E failing \in SUBSET subsToClose :
            LET covered == LoopCovers(subsToClose, failing) IN
            /\ subscriptions' = Restrict(subscriptions, (DOMAIN subscriptions) \ covered)
            /\ subInfos' = CancelAndClose(subInfos, InfosOf(subscriptions, covered))
            /\ subscriptionsMutex' = t
            /\ pc' = [pc EXCEPT ![t] = "bulkRelease"]
            /\ loc' = [loc EXCEPT ![t].toRelease = CloseRepoReleases(path, subsToClose),
                                  ![t].ret = Cardinality(subsToClose)]
            /\ obs' = [obs EXCEPT ![t].closed = ClosedPerPath(subscriptions, covered),
                                  ![t].closeErrs = failing]
            /\ UNCHANGED <<nextSubID, receivers, subLog>>
    /\ UNCHANGED <<regVars, callLog, calls, envVars>>

Call_PubSubCloseAllSubscriptions(t) ==
    Call(t, "closeAll", Entry("PubSubCloseAllSubscriptions", "none"))

\* PubSubCloseAllSubscriptions, lines 390-417: lock, cancel, close and delete them all
PubSubCloseAllSubscriptions_Close(t) ==
    /\ pc[t] = "closeAll"
    /\ MutexFree(subscriptionsMutex)
    /\ IF DOMAIN subscriptions = {}
       THEN /\ SetThread(t, Returned(loc[t], obs[t], 0))
            /\ UNCHANGED subVars
       ELSE \E failing \in SUBSET DOMAIN subscriptions :
            LET rel == CloseAllReleases(subscriptions)
                covered == LoopCovers(DOMAIN subscriptions, failing) IN
            /\ subscriptions' = Restrict(subscriptions, (DOMAIN subscriptions) \ covered)
            /\ subInfos' = CancelAndClose(subInfos, InfosOf(subscriptions, covered))
            /\ subscriptionsMutex' = t
            /\ pc' = [pc EXCEPT ![t] = "bulkRelease"]
            /\ loc' = [loc EXCEPT ![t].toRelease = rel,
                                  ![t].ret = Cardinality({p \in Paths : rel[p] > 0})]
            /\ obs' = [obs EXCEPT ![t].closed = ClosedPerPath(subscriptions, covered),
                                  ![t].closeErrs = failing]
            /\ UNCHANGED <<nextSubID, receivers, subLog>>
    /\ UNCHANGED <<regVars, callLog, calls, envVars>>

\* the ReleaseNode calls of a bulk close (lines 379-381, 420-422), one per step, still
\* under subscriptionsMutex; after the last one the deferred Unlock and the return
BulkRelease(t) ==
    /\ pc[t] = "bulkRelease"
    /\ MutexFree(activeNodesMutex)
    /\ \E p \in Paths :
         /\ loc[t].toRelease[p] > 0
         /\ LET r == ReleaseNode(activeNodes, nodes, p)
                left == [loc[t].toRelease EXCEPT ![p] = @ - 1]
                l2 == [loc[t] EXCEPT !.toRelease = left]
                o2 == [obs[t] EXCEPT !.released[p] = @ + 1] IN
            /\ activeNodes' = r.activeNodes
            /\ nodes' = r.nodes
            /\ IF left = NoPaths
               THEN /\ subscriptionsMutex' = Unlocked
                    /\ SetThread(t, Returned(l2, o2, l2.ret))
               ELSE /\ SetThread(t, [pc |-> "bulkRelease", loc |-> l2, obs |-> o2])
                    /\ UNCHANGED subscriptionsMutex
    /\ UNCHANGED <<activeNodesMutex, subscriptions, nextSubID, msgVars, callLog, calls, envVars>>

\* ------------------------------------------------------------- P2P listeners
\* strings.HasPrefix(s, prefix)
HasPrefix(s, prefix) ==
    Len(s) >= Len(prefix) /\ SubSeq(s, 1, Len(prefix)) = prefix

NormalizeProtocol_Always(name) == XPrefix \o name

\* P2PForward lines 31-33, P2PListen lines 81-83, P2PClose lines 135-137
NormalizeProtocol(name) ==
    IF ~HasPrefix(name, XPrefix) THEN XPrefix \o name ELSE name

\* ma.NewMultiaddr(a) returns no error
ParsesAddr(a) == a \in WellFormedAddrs
\* peer.Decode(id) returns no error
DecodesPeer(id) == id \in WellFormedPeerIDs

\* a p2p.Listener as P2PClose and P2PListListeners read it
ListenerEntry(proto, listen, target) ==
    [Protocol |-> proto, ListenAddress |-> listen, TargetAddress |-> target]

\* the listen address of a listener ForwardRemote registers: the node's own peer address
SelfAddr == "/p2p/self"

\* the protocols of the entries of a listener table
ProtocolsOf(tbl) == {tbl[k].Protocol : k \in 1..Len(tbl)}
ListenAddressesOf(tbl) == {tbl[k].ListenAddress : k \in 1..Len(tbl)}

\* P2PListen, lines 75-91: normalize the protocol name, then AcquireNode
Call_P2PListen(t, p, proto, target) ==
    Call(t, "acquire", [Entry("P2PListen", p) EXCEPT
                           !.name = proto,
                           !.proto = NormalizeProtocol(proto),
                           !.args = [NoArgs EXCEPT !.targetAddr = target]])

\* P2PListen, lines 93-112: parse the target (-3), ForwardRemote on the acquired node (-2);
\* the runtime rejects a second listener for a protocol and any listener on a closed node
P2PListen_Body(t) ==
    /\ pc[t] = "listen"
    /\ LET i == loc[t].node IN
       IF ~ParsesAddr(loc[t].args.targetAddr)
       THEN /\ loc' = [loc EXCEPT ![t].ret = -3, ![t].stage = "address"]
            /\ UNCHANGED nodes
       ELSE \/ /\ loc' = [loc EXCEPT ![t].ret = -2, ![t].stage = "runtime"]
               /\ UNCHANGED nodes
            \/ /\ nodes[i].closes = 0
               /\ loc[t].proto \notin ProtocolsOf(nodes[i].ListenersP2P)
               /\ nodes' = [nodes EXCEPT ![i].ListenersP2P =
                               Append(@, ListenerEntry(loc[t].proto, SelfAddr,
                                                       loc[t].args.targetAddr))]
               /\ loc' = [loc EXCEPT ![t].ret = 1, ![t].stage = "ok"]
    /\ pc' = [pc EXCEPT ![t] = "release"]
    /\ UNCHANGED <<activeNodes, activeNodesMutex, obs, subVars, callLog, calls, envVars>>

\* P2PForward, lines 24-41: normalize the protocol name, then AcquireNode
Call_P2PForward(t, p, proto, listen, peer) ==
    Call(t, "acquire", [Entry("P2PForward", p) EXCEPT
                           !.name = proto,
                           !.proto = NormalizeProtocol(proto),
                           !.args = [NoArgs EXCEPT !.listenAddr = listen, !.peerID = peer]])

P2PForward_Status_PeerAsAddress(listen, peer, runtimeOk) ==
    IF ~ParsesAddr(listen) THEN -3
    ELSE IF ~DecodesPeer(peer) THEN -3
    ELSE IF ~runtimeOk THEN -2
    ELSE 1

\* the status of P2PForward, lines 43-69, by the first stage that fails; the runtime
\* stage is reached only with a parsed address and a decoded peer id
P2PForward_Status(listen, peer, runtimeOk) ==
    IF ~ParsesAddr(listen) THEN -3
    ELSE IF ~DecodesPeer(peer) THEN -4
    ELSE IF ~runtimeOk THEN -2
    ELSE 1

\* the stage of P2PForward, lines 43-69, that decides its status
P2PForward_Stage(listen, peer, runtimeOk) ==
    IF ~ParsesAddr(listen) THEN "address"
    ELSE IF ~DecodesPeer(peer) THEN "peerID"
    ELSE IF ~runtimeOk THEN "runtime"
    ELSE "ok"

\* P2PForward, lines 43-69: parse the address and the peer id, ForwardLocal; the runtime
\* rejects a second listener on a listen address and any listener on a closed node
P2PForward_Body(t) ==
    /\ pc[t] = "forward"
    /\ LET i == loc[t].node
           a == loc[t].args IN
       \E runtimeOk \in BOOLEAN :
          LET st == P2PForward_Status(a.listenAddr, a.peerID, runtimeOk) IN
          /\ loc' = [loc EXCEPT ![t].ret = st,
                                ![t].stage = P2PForward_Stage(a.listenAddr, a.peerID, runtimeOk)]
          /\ IF st = 1
             THEN /\ nodes[i].closes = 0
                  /\ a.listenAddr \notin ListenAddressesOf(nodes[i].ListenersLocal)
                  /\ nodes' = [nodes EXCEPT ![i].ListenersLocal =
                                  Append(@, ListenerEntry(loc[t].proto, a.listenAddr,
                                                          "/p2p/" \o a.peerID))]
             ELSE UNCHANGED nodes
    /\ pc' = [pc EXCEPT ![t] = "release"]
    /\ UNCHANGED <<activeNodes, activeNodesMutex, obs, subVars, callLog, calls, envVars>>

\* a peer opens a stream through a listener of the open runtime instance i
StreamOpen(i) ==
    /\ nodes[i].closes = 0
    /\ Len(nodes[i].Streams) < MaxStreams
    /\ \E e \in {nodes[i].ListenersP2P[k] : k \in 1..Len(nodes[i].ListenersP2P)}
              \cup {nodes[i].ListenersLocal[k] : k \in 1..Len(nodes[i].ListenersLocal)} :
         nodes' = [nodes EXCEPT ![i].Streams = Append(@, e)]
    /\ UNCHANGED <<activeNodes, activeNodesMutex, pc, loc, obs, subVars, callLog, calls, envVars>>

\* P2PCloseAllListeners, lines 376-393: ListenersP2P.Close(matchAll) on the acquired node
P2PCloseAllListeners_Body(t) ==
    /\ pc[t] = "closeListeners"
    /\ nodes' = [nodes EXCEPT ![loc[t].node].ListenersP2P = <<>>]
    /\ loc' = [loc EXCEPT ![t].ret = Len(nodes[loc[t].node].ListenersP2P)]
    /\ pc' = [pc EXCEPT ![t] = "release"]
    /\ UNCHANGED <<activeNodes, activeNodesMutex, obs, subVars, callLog, calls, envVars>>

\* P2PCloseAllForwards, lines 410-437: ListenersLocal.Close(matchAll), then every stream
P2PCloseAllForwards_Body(t) ==
    /\ pc[t] = "closeForwards"
    /\ nodes' = [nodes EXCEPT ![loc[t].node].ListenersLocal = <<>>,
                              ![loc[t].node].Streams = <<>>]
    /\ loc' = [loc EXCEPT ![t].ret = Len(nodes[loc[t].node].ListenersLocal)
                                      + Len(nodes[loc[t].node].Streams)]
    /\ pc' = [pc EXCEPT ![t] = "release"]
    /\ UNCHANGED <<activeNodes, activeNodesMutex, obs, subVars, callLog, calls, envVars>>

\* a caller invokes P2PCloseAllListeners(p) directly
Call_P2PCloseAllListeners(t, p) == Call(t, "acquire", Entry("P2PCloseAllListeners", p))

\* a caller invokes P2PCloseAllForwards(p) directly
Call_P2PCloseAllForwards(t, p) == Call(t, "acquire", Entry("P2PCloseAllForwards", p))

\* P2PClose, lines 118-140: the protocol name is normalized only when it is not empty
Call_P2PClose(t, p, proto, a) ==
    Call(t, "closeParse",
         [Entry("P2PClose", p) EXCEPT
             !.name = proto,
             !.proto = IF proto # <<>> THEN NormalizeProtocol(proto) ELSE proto,
             !.args = a])

\* P2PClose, lines 141-155: a non-empty address that does not parse returns -1
P2PClose_Parse(t) ==
    /\ pc[t] = "closeParse"
    /\ LET a == loc[t].args IN
       IF \/ a.listenAddr # "" /\ ~ParsesAddr(a.listenAddr)
          \/ a.targetAddr # "" /\ ~ParsesAddr(a.targetAddr)
       THEN SetThread(t, Returned([loc[t] EXCEPT !.stage = "address"], obs[t], -1))
       ELSE /\ pc' = [pc EXCEPT ![t] = "acquire"]
            /\ UNCHANGED <<loc, obs>>
    /\ UNCHANGED <<regVars, subVars, callLog, calls, envVars>>

MatchFunc_AnyField(listener, proto, a) ==
    \/ a.all
    \/ proto # <<>> /\ listener.Protocol = proto
    \/ a.listenAddr # "" /\ listener.ListenAddress = a.listenAddr
    \/ a.targetAddr # "" /\ listener.TargetAddress = a.targetAddr
    \/ (proto = <<>> /\ a.listenAddr = "" /\ a.targetAddr = "")

\* P2PClose, lines 173-187: matchFunc
MatchFunc(listener, proto, a) ==
    IF a.all THEN TRUE
    ELSE IF proto # <<>> /\ listener.Protocol # proto THEN FALSE
    ELSE IF a.listenAddr # "" /\ listener.ListenAddress # a.listenAddr THEN FALSE
    ELSE IF a.targetAddr # "" /\ listener.TargetAddress # a.targetAddr THEN FALSE
    ELSE TRUE

\* Listeners.Close(matchFunc): the entries that stay, and the number of those closed
KeepUnmatched(tbl, proto, a) == SelectSeq(tbl, LAMBDA e : ~MatchFunc(e, proto, a))
CountMatched(tbl, proto, a) == Len(tbl) - Len(KeepUnmatched(tbl, proto, a))

\* P2PClose, lines 188-212: close the matching entries of the selected tables, return
\* their number
P2PClose_Body(t) ==
    /\ pc[t] = "p2pClose"
    /\ LET i == loc[t].node
           a == loc[t].args
           proto == loc[t].proto
           n1 == IF a.listeners THEN CountMatched(nodes[i].ListenersP2P, proto, a) ELSE 0
           n2 == IF a.forwarders THEN CountMatched(nodes[i].ListenersLocal, proto, a) ELSE 0 IN
       /\ nodes' = [nodes EXCEPT
                      ![i].ListenersP2P =
                          IF a.listeners THEN KeepUnmatched(@, proto, a) ELSE @,
                      ![i].ListenersLocal =
                          IF a.forwarders THEN KeepUnmatched(@, proto, a) ELSE @]
       /\ loc' = [loc EXCEPT ![t].ret = n1 + n2, ![t].stage = "ok"]
    /\ pc' = [pc EXCEPT ![t] = "release"]
    /\ UNCHANGED <<activeNodes, activeNodesMutex, obs, subVars, callLog, calls, envVars>>

\* P2PListListeners, lines 218-227: AcquireNode
Call_P2PListListeners(t, p) == Call(t, "acquire", Entry("P2PListListeners", p))

\* P2PListListeners, lines 230-282: read the three tables of the acquired node into the
\* listing it returns
P2PListListeners_Body(t) ==
    /\ pc[t] = "listListeners"
    /\ LET i == loc[t].node IN
       loc' = [loc EXCEPT ![t].listing =
                  [Forwards |-> nodes[i].ListenersLocal,
                   Listens |-> nodes[i].ListenersP2P,
                   Streams |-> nodes[i].Streams]]
    /\ pc' = [pc EXCEPT ![t] = "release"]
    /\ UNCHANGED <<regVars, obs, subVars, callLog, calls, envVars>>

\* ------------------------------------------------------------- repositories
IsInitialized_Never(r) == FALSE

\* fsrepo.IsInitialized(path), line 65
IsInitialized(r) == r.initialized

\* CreateRepo(path)
Call_CreateRepo(t, p) == Call(t, "createRepo", Entry("CreateRepo", p))

\* CreateRepo, lines 64-67: an initialized repository is reported with 0
CreateRepo_Check(t) ==
    /\ pc[t] = "createRepo"
    /\ IF IsInitialized(repos[loc[t].path])
       THEN SetThread(t, Returned(loc[t], obs[t], 0))
       ELSE /\ pc' = [pc EXCEPT ![t] = "configInit"]
            /\ UNCHANGED <<loc, obs>>
    /\ UNCHANGED <<regVars, subVars, callLog, calls, envVars>>

\* CreateRepo, lines 69-81: config.Init makes a configuration with a new identity, or
\* fails (-1)
CreateRepo_ConfigInit(t) ==
    /\ pc[t] = "configInit"
    /\ \E ok \in BOOLEAN :
          IF ok
          THEN /\ pc' = [pc EXCEPT ![t] = "repoInit"]
               /\ loc' = [loc EXCEPT ![t].cfg = [by |-> t, call |-> calls]]
               /\ UNCHANGED obs
          ELSE SetThread(t, Returned(loc[t], obs[t], -1))
    /\ UNCHANGED <<regVars, subVars, callLog, calls, envVars>>

\* fsrepo.Init(path, cfg), called at line 84: it writes the repository unless one is
\* initialized at the path already, which it leaves as it is
RepoInit(r, cfg) ==
    IF r.initialized THEN r ELSE [initialized |-> TRUE, config |-> cfg]

\* CreateRepo, lines 83-89: fsrepo.Init fails (-2) or succeeds (1)
CreateRepo_Init(t) ==
    /\ pc[t] = "repoInit"
    /\ \E ok \in BOOLEAN :
          IF ok
          THEN /\ repos' = [repos EXCEPT ![loc[t].path] = RepoInit(@, loc[t].cfg)]
               /\ SetThread(t, Returned(loc[t], obs[t], 1))
          ELSE /\ SetThread(t, Returned(loc[t], obs[t], -2))
               /\ UNCHANGED repos
    /\ UNCHANGED <<regVars, subVars, callLog, calls, opLog>>

\* ------------------------------------------------------------- content and peers
\* content ids that decode, and one that does not
Cid == "QmContent"
BadCid == "cid?"
WellFormedCids == {Cid}
\* cidlib.Decode(c) returns no error
DecodesCid(c) == c \in WellFormedCids

\* peer addresses that parse, and one that does not
PeerAddr == "/ip4/10.0.0.1/tcp/4001/p2p/QmPeer"
BadPeerAddr == "10.0.0.1:4001"
WellFormedPeerAddrs == {PeerAddr}
\* peer.AddrInfoFromString(a) returns no error
ParsesPeerAddr(a) == a \in WellFormedPeerAddrs

\* Download, lines 130-203: its stages in the order they run, and the status returned when
\* a stage fails; a file goes through read and write, a directory through mkdirDir and
\* directory, and a node that is neither ends at unknownType
Download_Status(stage) ==
    CASE stage = "decode" -> -2
      [] stage = "fetch" -> -2
      [] stage = "mkdir" -> -3
      [] stage = "read" -> -5
      [] stage = "write" -> -6
      [] stage = "mkdirDir" -> -7
      [] stage = "directory" -> -8
      [] stage = "unknownType" -> -9
      [] OTHER -> 0

\* the stages of Download at which the runtime or the file system can fail, and "ok"
DownloadOutcomes ==
    {"fetch", "mkdir", "read", "write", "mkdirDir", "directory", "unknownType", "ok"}

\* PinCID lines 284-300, UnpinCID lines 324-340
PinCID_Status(stage) ==
    CASE stage = "decode" -> -2
      [] stage = "pin" -> -3
      [] OTHER -> 0

PinOutcomes == {"pin", "ok"}

\* ConnectToPeer, peers.go lines 36-50
ConnectToPeer_Status(stage) ==
    CASE stage = "peerAddr" -> -2
      [] stage = "connect" -> -3
      [] OTHER -> 0

ConnectOutcomes == {"connect", "ok"}

Call_Download(t, p, cid) ==
    Call(t, "acquire", [Entry("Download", p) EXCEPT !.args = [NoArgs EXCEPT !.cid = cid]])

Call_PinCID(t, p, cid) ==
    Call(t, "acquire", [Entry("PinCID", p) EXCEPT !.args = [NoArgs EXCEPT !.cid = cid]])

Call_UnpinCID(t, p, cid) ==
    Call(t, "acquire", [Entry("UnpinCID", p) EXCEPT !.args = [NoArgs EXCEPT !.cid = cid]])

Call_ConnectToPeer(t, p, addr) ==
    Call(t, "acquire",
         [Entry("ConnectToPeer", p) EXCEPT !.args = [NoArgs EXCEPT !.peerAddr = addr]])

\* the stage that decides the status of operation l.op when the first stage that the
\* runtime fails is outcome
DecidingStage(l, outcome) ==
    IF l.op = "ConnectToPeer"
    THEN IF ~ParsesPeerAddr(l.args.peerAddr) THEN "peerAddr" ELSE outcome
    ELSE IF ~DecodesCid(l.args.cid) THEN "decode" ELSE outcome

\* the stages the runtime can fail for operation op
OutcomesOf(op) ==
    CASE op = "Download" -> DownloadOutcomes
      [] op = "ConnectToPeer" -> ConnectOutcomes
      [] OTHER -> PinOutcomes

StatusOf(op, stage) ==
    CASE op = "Download" -> Download_Status(stage)
      [] op = "ConnectToPeer" -> ConnectToPeer_Status(stage)
      [] OTHER -> PinCID_Status(stage)

\* the body of Download, PinCID, UnpinCID or ConnectToPeer on the acquired node, up to
\* the return statement that sets the status; the deferred ReleaseNode follows
StatusOp_Body(t) ==
    /\ pc[t] = "body"
    /\ \E outcome \in OutcomesOf(loc[t].op) :
          LET stage == DecidingStage(loc[t], outcome) IN
          loc' = [loc EXCEPT ![t].stage = stage, ![t].ret = StatusOf(loc[t].op, stage)]
    /\ pc' = [pc EXCEPT ![t] = "release"]
    /\ UNCHANGED <<regVars, obs, subVars, callLog, calls, envVars>>

\* a caller invokes one of the operations of QueryOps on path p
Call_Query(t, op, p) == Call(t, "acquire", Entry(op, p))

\* the body of an operation of QueryOps on the acquired node: every return statement after
\* the defer, the failing ones (stage "runtime", status -2 for PubSubPublish) and the last
\* one; the deferred ReleaseNode follows. The strings returned are not modelled.
Query_Body(t) ==
    /\ pc[t] = "query"
    /\ \E ok \in BOOLEAN :
          loc' = [loc EXCEPT ![t].stage = IF ok THEN "ok" ELSE "runtime",
                             ![t].ret = IF ok THEN 0
                                        ELSE IF loc[t].op = "PubSubPublish" THEN -2 ELSE 0]
    /\ pc' = [pc EXCEPT ![t] = "release"]
    /\ UNCHANGED <<regVars, obs, subVars, callLog, calls, envVars>>

\* ------------------------------------------------------------- go_src
\* a caller invokes the go_src AddFile, GetFile or ConnectToPeer on path p
Call_SpawnNodeOp(t, op, p) == Call(t, "acquire", Entry(op, p))

\* the statuses the returns after the defer give: go_src/repo.go AddFile (a string or nil,
\* not modelled), GetFile -2 .. -6 and 0, go_src/peers.go ConnectToPeer -2, -3 and 0
SpawnNodeRets(op) ==
    CASE op = "go_src.GetFile" -> {-6, -5, -4, -3, -2, 0}
      [] op = "go_src.ConnectToPeer" -> {-3, -2, 0}
      [] OTHER -> {0}

\* the deferred func() { node.Close() } of these operations: Close on the instance that
\* spawnNodeFunc returned; the registry is not consulted and ReleaseNode is not called
DeferredClose(an, ns, inst) == [activeNodes |-> an, nodes |-> Close(ns, inst)]

\* the body of a go_src operation after spawnNodeFunc has returned a node: any of its
\* return statements, then the deferred node.Close()
SpawnNode_DeferredClose(t) ==
    /\ pc[t] = "spawned"
    /\ LET r == DeferredClose(activeNodes, nodes, loc[t].node) IN
       /\ activeNodes' = r.activeNodes
       /\ nodes' = r.nodes
    /\ \E ret \in SpawnNodeRets(loc[t].op) : SetThread(t, Returned(loc[t], obs[t], ret))
    /\ UNCHANGED <<activeNodesMutex, subVars, callLog, calls, envVars>>

\* ------------------------------------------------------------- CleanupNode
ForceClose_IfUnreferenced(an, ns, p) ==
    IF p \notin DOMAIN an
    THEN [activeNodes |-> an, nodes |-> ns, ret |-> -1]
    ELSE IF an[p].RefCount <= 1
         THEN [activeNodes |-> Delete(an, p), nodes |-> Close(ns, an[p].Node), ret |-> 0]
         ELSE [activeNodes |-> an, nodes |-> ns, ret |-> 0]

ForceClose_KeepsEntry(an, ns, p) ==
    IF p \notin DOMAIN an
    THEN [activeNodes |-> an, nodes |-> ns, ret |-> -1]
    ELSE [activeNodes |-> an, nodes |-> Close(ns, an[p].Node), ret |-> 0]

\* CleanupNode, lines 319-334: close and remove the node whatever its RefCount
ForceClose(an, ns, p) ==
    IF p \notin DOMAIN an
    THEN [activeNodes |-> an, nodes |-> ns, ret |-> -1]
    ELSE [activeNodes |-> Delete(an, p), nodes |-> Close(ns, an[p].Node), ret |-> 0]

\* CleanupNode(p), lines 307-311: its first call is P2PCloseAllListeners
Call_CleanupNode(t, p) ==
    Call(t, StagePc("P2PCloseAllListeners"),
         [Entry("CleanupNode", p) EXCEPT !.fn = "P2PCloseAllListeners"])

CleanupNode_ForceClose(t) ==
    /\ pc[t] = "forceClose"
    /\ MutexFree(activeNodesMutex)
    /\ LET r == ForceClose(activeNodes, nodes, loc[t].path) IN
       /\ activeNodes' = r.activeNodes
       /\ nodes' = r.nodes
       /\ SetThread(t, [pc |-> "done",
                        loc |-> [loc[t] EXCEPT !.ret = r.ret],
                        obs |-> [obs[t] EXCEPT !.stages = Append(@, "forceClose")]])
    /\ UNCHANGED <<activeNodesMutex, subVars, callLog, calls, envVars>>

\* ------------------------------------------------------------- messages
\* a run allocates one subscriptionInfo, and starts one receiver, per successful subscribe
SubInfoIds == 1..MaxOps

\* the messages the runtime has produced so far
TotalSent(infos) ==
    LET Sum[n \in 0..Len(infos)] ==
            IF n = 0 THEN 0 ELSE Sum[n - 1] + infos[n].subscription.sent
    IN Sum[Len(infos)]

\* the runtime hands subscription object k its next message: the payload names the
\* subscription and the position, the topics are the one it was opened for
RuntimeProduce(k) ==
    /\ k \in DOMAIN subInfos
    /\ ~subInfos[k].subscription.closed
    /\ TotalSent(subInfos) < MaxMsgs
    /\ LET n == subInfos[k].subscription.sent + 1
           m == [Data |-> <<k, n>>, Seqno |-> n,
                 Topics |-> <<subInfos[k].subscription.topic>>] IN
       subInfos' = [subInfos EXCEPT ![k].subscription.inbox = Append(@, m),
                                    ![k].subscription.sent = n]
    /\ UNCHANGED <<regVars, pc, loc, obs, callLog, subscriptions, subscriptionsMutex,
                   nextSubID, receivers, subLog, calls, envVars>>

\* messageReceiver, lines 186-199: the Message built from msg, TopicID the receiver's topic
Message(msg, topic) ==
    [Data |-> msg.Data, Seqno |-> msg.Seqno, Topics |-> msg.Topics, TopicID |-> topic]

\* messageReceiver, lines 161-167: look the subscriptionInfo up under subscriptionsMutex
messageReceiver_Lookup(r) ==
    /\ r \in DOMAIN receivers
    /\ receivers[r].pc = "lookup"
    /\ MutexFree(subscriptionsMutex)
    /\ LET id == receivers[r].subID IN
       IF id \in DOMAIN subscriptions
       THEN receivers' = [receivers EXCEPT ![r].pc = "loop",
                                           ![r].subInfo = subscriptions[id].subInfo]
       ELSE receivers' = [receivers EXCEPT ![r].pc = "exit"]
    /\ UNCHANGED <<regVars, pc, loc, obs, callLog, subscriptions, subscriptionsMutex,
                   nextSubID, subInfos, subLog, calls, envVars>>

\* messageReceiver, lines 170-196: return when the context is done, else take the next
\* message of its subscription (a timeout of Next changes nothing)
messageReceiver_Next(r) ==
    /\ r \in DOMAIN receivers
    /\ receivers[r].pc = "loop"
    /\ LET k == receivers[r].subscription IN
       IF subInfos[receivers[r].subInfo].cancelled
       THEN /\ receivers' = [receivers EXCEPT ![r].pc = "exit"]
            /\ UNCHANGED subInfos
       ELSE /\ subInfos[k].subscription.inbox # <<>>
            /\ receivers' = [receivers EXCEPT
                                ![r].pc = "append",
                                ![r].msg = Message(Head(subInfos[k].subscription.inbox),
                                                   receivers[r].topic)]
            /\ subInfos' = [subInfos EXCEPT ![k].subscription.inbox = Tail(@)]
    /\ UNCHANGED <<regVars, pc, loc, obs, callLog, subscriptions, subscriptionsMutex,
                   nextSubID, subLog, calls, envVars>>

\* messageReceiver, lines 207-209: append under subInfo.mutex
messageReceiver_Append(r) ==
    /\ r \in DOMAIN receivers
    /\ receivers[r].pc = "append"
    /\ subInfos' = [subInfos EXCEPT
                       ![receivers[r].subInfo].messageQueue = Append(@, receivers[r].msg)]
    /\ receivers' = [receivers EXCEPT ![r].pc = "loop", ![r].msg = NoMsg]
    /\ UNCHANGED <<regVars, pc, loc, obs, callLog, subscriptions, subscriptionsMutex,
                   nextSubID, subLog, calls, envVars>>

\* messageReceiver_Next takes the select and a successful subscription.Next as one step.
\* The four definitions below split the loop at its blocking points: the select, the
\* bounded subscription.Next, and the sleep after an error.
Select_Default(done) == "next"

\* select { case <-subInfo.ctx.Done(): return; default: ... }, lines 171-175: the default
\* branch is taken only while the context is not done
Select(done) == IF done THEN "exit" ELSE "next"

\* messageReceiver, lines 170-175: the select at the head of the loop
messageReceiver_Select(r) ==
    /\ r \in DOMAIN receivers
    /\ receivers[r].pc = "loop"
    /\ receivers' = [receivers EXCEPT
                        ![r].pc = Select(subInfos[receivers[r].subInfo].cancelled)]
    /\ UNCHANGED <<regVars, pc, loc, obs, callLog, subscriptions, subscriptionsMutex,
                   nextSubID, subInfos, subLog, calls, envVars>>

\* messageReceiver, lines 176-199: subscription.Next under msgCtx returns the next message
\* of the subscription, or an error: the 100 ms deadline when no message is waiting, the
\* cancellation of subInfo.ctx (when a message is waiting too, either may be returned)
messageReceiver_Receive(r) ==
    /\ r \in DOMAIN receivers
    /\ receivers[r].pc = "next"
    /\ LET k == receivers[r].subscription
           inbox == subInfos[k].subscription.inbox IN
       \/ /\ inbox # <<>>
          /\ receivers' = [receivers EXCEPT
                              ![r].pc = "append",
                              ![r].msg = Message(Head(inbox), receivers[r].topic)]
          /\ subInfos' = [subInfos EXCEPT ![k].subscription.inbox = Tail(@)]
       \/ /\ inbox = <<>> \/ subInfos[receivers[r].subInfo].cancelled
          /\ receivers' = [receivers EXCEPT ![r].pc = "backoff"]
          /\ UNCHANGED subInfos
    /\ UNCHANGED <<regVars, pc, loc, obs, callLog, subscriptions, subscriptionsMutex,
                   nextSubID, subLog, calls, envVars>>

\* messageReceiver, lines 180-185: time.Sleep(10 ms) after an error, then continue
messageReceiver_Backoff(r) ==
    /\ r \in DOMAIN receivers
    /\ receivers[r].pc = "backoff"
    /\ receivers' = [receivers EXCEPT ![r].pc = "loop"]
    /\ UNCHANGED <<regVars, pc, loc, obs, callLog, subscriptions, subscriptionsMutex,
                   nextSubID, subInfos, subLog, calls, envVars>>

Call_PubSubNextMessage(t, id) ==
    Call(t, "nextMessage", [Entry("PubSubNextMessage", "none") EXCEPT !.subID = id])

\* PubSubNextMessage, lines 221-228: look the id up under subscriptionsMutex
PubSubNextMessage_Lookup(t) ==
    /\ pc[t] = "nextMessage"
    /\ MutexFree(subscriptionsMutex)
    /\ LET id == loc[t].subID IN
       IF id \in DOMAIN subscriptions
       THEN /\ pc' = [pc EXCEPT ![t] = "nextPop"]
            /\ loc' = [loc EXCEPT ![t].subInfo = subscriptions[id].subInfo]
            /\ UNCHANGED obs
       ELSE SetThread(t, Returned(loc[t], obs[t], 0))
    /\ UNCHANGED <<regVars, subVars, callLog, calls, envVars>>

PopReady_WhenNonEmpty(q) == Len(q) > 0

\* PubSubNextMessage, lines 234-238: the call goes on whatever the length of the queue
\* (an empty one makes it return nil, it never waits for the receiver)
PopReady(q) == TRUE

PopQueue_Newest(q) == [msg |-> q[Len(q)], rest |-> SubSeq(q, 1, Len(q) - 1)]

\* PubSubNextMessage, lines 240-242: messageQueue[0] and messageQueue[1:]
PopQueue(q) == [msg |-> Head(q), rest |-> Tail(q)]

\* PubSubNextMessage, lines 231-253: under subInfo.mutex, nil on an empty queue, else
\* remove the first message and return it
PubSubNextMessage_Pop(t) ==
    /\ pc[t] = "nextPop"
    /\ PopReady(subInfos[loc[t].subInfo].messageQueue)
    /\ LET k == loc[t].subInfo
           q == subInfos[k].messageQueue IN
       IF Len(q) = 0
       THEN /\ SetThread(t, Returned(loc[t], obs[t], 0))
            /\ UNCHANGED <<subInfos, subLog>>
       ELSE /\ subInfos' = [subInfos EXCEPT ![k].messageQueue = PopQueue(q).rest]
            /\ subLog' = [subLog EXCEPT ![k].polled = Append(@, PopQueue(q).msg)]
            /\ SetThread(t, Returned([loc[t] EXCEPT !.msg = PopQueue(q).msg], obs[t], 1))
    /\ UNCHANGED <<regVars, subscriptions, subscriptionsMutex, nextSubID, receivers,
                   callLog, calls, envVars>>

\* ------------------------------------------------------------- the exported operations
PubSubThreads == {"t1", "t2"}

NextPubSub ==
    \E t \in PubSubThreads :
        \/ \E p \in Paths : Call_RunNode(t, p)
        \/ \E p \in Paths : Call_P2PEnable(t, p)
        \/ \E p \in Paths : \E topic \in Topics : Call_PubSubSubscribe(t, p, topic)
        \/ \E id \in 1..nextSubID : Call_PubSubUnsubscribe(t, id)
        \/ \E p \in Paths : Call_PubSubCloseRepoSubscriptions(t, p)
        \/ Call_PubSubCloseAllSubscriptions(t)
        \/ AcquireNode_Enter(t)
        \/ AcquireNode_Create(t)
        \/ ReleaseNode_Call(t)
        \/ PubSubSubscribe_Register(t)
        \/ PubSubUnsubscribe_Lookup(t)
        \/ PubSubUnsubscribe_Release(t)
        \/ PubSubCloseRepoSubscriptions_Close(t)
        \/ PubSubCloseAllSubscriptions_Close(t)
        \/ BulkRelease(t)
        \/ Return(t)

\* two threads calling RunNode, a short-lived operation and the pubsub operations
SpecPubSub == Init /\ [][NextPubSub]_vars

Next ==
    \/ \E t \in ApiThreads :
        \/ \E p \in CleanupPaths : Call_RunNode(t, p)
        \/ \E p \in CleanupPaths : Call_P2PEnable(t, p)
        \/ \E p \in CleanupPaths : \E topic \in Topics : Call_PubSubSubscribe(t, p, topic)
        \/ \E p \in CleanupPaths : \E proto \in Protocols : Call_P2PListen(t, p, proto, TargetAddr)
        \/ \E p \in CleanupPaths : \E proto \in Protocols : Call_P2PForward(t, p, proto, ListenAddr, PeerID)
        \/ \E p \in CleanupPaths : Call_CleanupNode(t, p)
        \/ AcquireNode_Enter(t)
        \/ AcquireNode_Create(t)
        \/ ReleaseNode_Call(t)
        \/ PubSubSubscribe_Register(t)
        \/ PubSubCloseRepoSubscriptions_Close(t)
        \/ BulkRelease(t)
        \/ P2PListen_Body(t)
        \/ P2PForward_Body(t)
        \/ P2PCloseAllListeners_Body(t)
        \/ P2PCloseAllForwards_Body(t)
        \/ CleanupNode_ForceClose(t)
        \/ Return(t)
    \/ \E i \in 1..Len(nodes) : StreamOpen(i)

\* the protocol names, filter names and arguments of the runs of SpecP2P
P2PNames == {<<"e">>, XPrefix \o <<"e">>}
CloseFilterNames == {<<>>} \cup P2PNames \cup {XPrefix \o n : n \in P2PNames}
ListenTargets == {TargetAddr, BadAddr}
ForwardArgs == {<<ListenAddr, PeerID>>, <<BadAddr, PeerID>>, <<ListenAddr, BadPeerID>>,
                <<BadAddr, BadPeerID>>}
\* the (protocol, target) arguments of P2PListen and the (protocol, listen address,
\* peer id) arguments of P2PForward: each name with well-formed arguments, one name with
\* the malformed ones
P2PListenCalls ==
    {<<n, TargetAddr>> : n \in P2PNames} \cup {<<<<"e">>, BadAddr>>}
P2PForwardCalls ==
    {<<n, ListenAddr, PeerID>> : n \in P2PNames}
        \cup {<<<<"e">>, fa[1], fa[2]>> : fa \in ForwardArgs}
\* the (protocol, other arguments) of P2PClose: each filter name on one table, and with
\* no name matchAll, an address filter and the malformed addresses; one call filters both
\* tables by a name and a target address
P2PCloseCalls ==
    {<<n, a>> : n \in CloseFilterNames,
                a \in {[NoArgs EXCEPT !.listeners = TRUE], [NoArgs EXCEPT !.forwarders = TRUE]}}
        \cup {<<<<>>, a>> : a \in
                 {[NoArgs EXCEPT !.all = TRUE, !.listeners = TRUE, !.forwarders = TRUE],
                  [NoArgs EXCEPT !.listeners = TRUE, !.targetAddr = TargetAddr],
                  [NoArgs EXCEPT !.listeners = TRUE, !.targetAddr = BadAddr],
                  [NoArgs EXCEPT !.forwarders = TRUE, !.listenAddr = BadAddr]}}
        \cup {<<<<"e">>, [NoArgs EXCEPT !.listeners = TRUE, !.forwarders = TRUE,
                                         !.targetAddr = TargetAddr]>>}

NextP2P ==
    \/ \E t \in ApiThreads :
        \/ \E p \in CleanupPaths : Call_RunNode(t, p)
        \/ \E p \in CleanupPaths : \E c \in P2PListenCalls : Call_P2PListen(t, p, c[1], c[2])
        \/ \E p \in CleanupPaths : \E c \in P2PForwardCalls :
              Call_P2PForward(t, p, c[1], c[2], c[3])
        \/ \E p \in CleanupPaths : \E c \in P2PCloseCalls : Call_P2PClose(t, p, c[1], c[2])
        \/ \E p \in CleanupPaths : Call_P2PListListeners(t, p)
        \/ \E p \in CleanupPaths : Call_P2PCloseAllListeners(t, p)
        \/ \E p \in CleanupPaths : Call_P2PCloseAllForwards(t, p)
        \/ AcquireNode_Enter(t)
        \/ AcquireNode_Create(t)
        \/ ReleaseNode_Call(t)
        \/ P2PListen_Body(t)
        \/ P2PForward_Body(t)
        \/ P2PClose_Parse(t)
        \/ P2PClose_Body(t)
        \/ P2PListListeners_Body(t)
        \/ P2PCloseAllListeners_Body(t)
        \/ P2PCloseAllForwards_Body(t)
        \/ Return(t)
    \/ \E i \in 1..Len(nodes) : StreamOpen(i)

\* two threads calling RunNode and the P2P operations on one path, and peers opening streams
SpecP2P == Init /\ [][NextP2P]_vars

\* one caller making its calls one after the other
NextP2PSeq ==
    \/ \E t \in Logged :
        \/ \E p \in CleanupPaths : Call_RunNode(t, p)
        \/ \E p \in CleanupPaths : \E proto \in P2PNames : Call_P2PListen(t, p, proto, TargetAddr)
        \/ \E p \in CleanupPaths : \E c \in P2PCloseCalls : Call_P2PClose(t, p, c[1], c[2])
        \/ AcquireNode_Enter(t)
        \/ AcquireNode_Create(t)
        \/ ReleaseNode_Call(t)
        \/ P2PListen_Body(t)
        \/ P2PClose_Parse(t)
        \/ P2PClose_Body(t)
        \/ Return(t)

\* RunNode, P2PListen and P2PClose called in sequence on one path
SpecP2PSeq == Init /\ [][NextP2PSeq]_vars


\* the P2PClose calls of the runs of SpecStatus
StatusCloseArgs ==
    {[NoArgs EXCEPT !.listeners = TRUE],
     [NoArgs EXCEPT !.listeners = TRUE, !.targetAddr = BadAddr],
     [NoArgs EXCEPT !.forwarders = TRUE, !.listenAddr = BadAddr]}

NextStatus ==
    \E t \in ApiThreads :
        \/ \E p \in CleanupPaths : \E cid \in {Cid, BadCid} : Call_Download(t, p, cid)
        \/ \E p \in CleanupPaths : \E cid \in {Cid, BadCid} : Call_PinCID(t, p, cid)
        \/ \E p \in CleanupPaths : \E cid \in {Cid, BadCid} : Call_UnpinCID(t, p, cid)
        \/ \E p \in CleanupPaths : \E addr \in {PeerAddr, BadPeerAddr} :
              Call_ConnectToPeer(t, p, addr)
        \/ \E p \in CleanupPaths : \E proto \in Protocols : \E target \in ListenTargets :
              Call_P2PListen(t, p, proto, target)
        \/ \E p \in CleanupPaths : \E proto \in Protocols : \E fa \in ForwardArgs :
              Call_P2PForward(t, p, proto, fa[1], fa[2])
        \/ \E p \in CleanupPaths : \E proto \in Protocols : \E a \in StatusCloseArgs :
              Call_P2PClose(t, p, proto, a)
        \/ AcquireNode_Enter(t)
        \/ AcquireNode_Create(t)
        \/ ReleaseNode_Call(t)
        \/ StatusOp_Body(t)
        \/ P2PListen_Body(t)
        \/ P2PForward_Body(t)
        \/ P2PClose_Parse(t)
        \/ P2PClose_Body(t)
        \/ Return(t)

\* two threads calling the operations that return an integer status
SpecStatus == Init /\ [][NextStatus]_vars

NextShort ==
    \E t \in ApiThreads :
        \/ \E p \in CleanupPaths : \E op \in QueryOps : Call_Query(t, op, p)
        \/ \E p \in CleanupPaths : \E cid \in {Cid, BadCid} : Call_Download(t, p, cid)
        \/ \E p \in CleanupPaths : \E cid \in {Cid, BadCid} : Call_PinCID(t, p, cid)
        \/ \E p \in CleanupPaths : \E cid \in {Cid, BadCid} : Call_UnpinCID(t, p, cid)
        \/ \E p \in CleanupPaths : \E addr \in {PeerAddr, BadPeerAddr} :
              Call_ConnectToPeer(t, p, addr)
        \/ \E p \in CleanupPaths : \E a \in StatusCloseArgs : Call_P2PClose(t, p, <<>>, a)
        \/ \E p \in CleanupPaths : Call_P2PListListeners(t, p)
        \/ \E p \in CleanupPaths : Call_P2PEnable(t, p)
        \/ \E p \in CleanupPaths : Call_P2PCloseAllListeners(t, p)
        \/ \E p \in CleanupPaths : Call_P2PCloseAllForwards(t, p)
        \/ AcquireNode_Enter(t)
        \/ AcquireNode_Create(t)
        \/ ReleaseNode_Call(t)
        \/ Query_Body(t)
        \/ StatusOp_Body(t)
        \/ P2PClose_Parse(t)
        \/ P2PClose_Body(t)
        \/ P2PListListeners_Body(t)
        \/ P2PCloseAllListeners_Body(t)
        \/ P2PCloseAllForwards_Body(t)
        \/ Return(t)

\* two threads calling the short-lived operations on one path
SpecShort == Init /\ [][NextShort]_vars

NextRepo ==
    \E t \in ApiThreads :
        \/ \E p \in Paths : Call_CreateRepo(t, p)
        \/ CreateRepo_Check(t)
        \/ CreateRepo_ConfigInit(t)
        \/ CreateRepo_Init(t)
        \/ Return(t)

\* two threads calling CreateRepo
SpecRepo == Init /\ [][NextRepo]_vars

\* in SpecMessages one thread opens and closes subscriptions and another one polls
MsgThreads == {"t1", "t2"}
Subscribers == {"t1"}
Pollers == {"t2"}

NextMessages ==
    \/ \E t \in Subscribers :
        \/ \E a \in MsgSubscribeArgs : Call_PubSubSubscribe(t, a[1], a[2])
        \/ \E id \in 1..nextSubID : Call_PubSubUnsubscribe(t, id)
        \/ \E p \in Paths : Call_PubSubCloseRepoSubscriptions(t, p)
    \/ \E t \in Pollers : \E id \in 1..nextSubID : Call_PubSubNextMessage(t, id)
    \/ \E t \in MsgThreads :
        \/ AcquireNode_Enter(t)
        \/ AcquireNode_Create(t)
        \/ ReleaseNode_Call(t)
        \/ PubSubSubscribe_Register(t)
        \/ PubSubUnsubscribe_Lookup(t)
        \/ PubSubUnsubscribe_Release(t)
        \/ PubSubCloseRepoSubscriptions_Close(t)
        \/ BulkRelease(t)
        \/ PubSubNextMessage_Lookup(t)
        \/ PubSubNextMessage_Pop(t)
        \/ Return(t)
    \/ \E r \in SubInfoIds :
        \/ messageReceiver_Lookup(r)
        \/ messageReceiver_Next(r)
        \/ messageReceiver_Append(r)
        \/ RuntimeProduce(r)

\* two threads calling the pubsub operations and polling, the messageReceiver
\* goroutines, and the runtime producing messages
SpecMessages == Init /\ [][NextMessages]_vars

\* a step of the operation thread t is in
ThreadStep(t) ==
    \/ AcquireNode_Enter(t)
    \/ AcquireNode_Create(t)
    \/ ReleaseNode_Call(t)
    \/ PubSubSubscribe_Register(t)
    \/ PubSubUnsubscribe_Lookup(t)
    \/ PubSubUnsubscribe_Release(t)
    \/ PubSubCloseRepoSubscriptions_Close(t)
    \/ BulkRelease(t)
    \/ PubSubNextMessage_Lookup(t)
    \/ PubSubNextMessage_Pop(t)
    \/ P2PCloseAllListeners_Body(t)
    \/ P2PCloseAllForwards_Body(t)
    \/ CleanupNode_ForceClose(t)
    \/ Return(t)

NextLocks ==
    \/ \E t \in Subscribers :
        \/ \E p \in CleanupPaths : \E topic \in Topics : Call_PubSubSubscribe(t, p, topic)
        \/ \E p \in CleanupPaths : Call_PubSubCloseRepoSubscriptions(t, p)
    \/ \E t \in Pollers :
        \/ \E id \in 1..nextSubID : Call_PubSubNextMessage(t, id)
        \/ \E p \in Paths : Call_P2PEnable(t, p)
    \/ \E t \in ApiThreads :
        \/ \E id \in 1..nextSubID : Call_PubSubUnsubscribe(t, id)
        \/ \E p \in CleanupPaths : Call_CleanupNode(t, p)
        \/ ThreadStep(t)
    \/ \E r \in SubInfoIds :
        \/ messageReceiver_Lookup(r)
        \/ messageReceiver_Next(r)
        \/ messageReceiver_Append(r)
        \/ RuntimeProduce(r)

NextTeardown ==
    \E t \in ApiThreads :
        \/ \E a \in MsgSubscribeArgs : Call_PubSubSubscribe(t, a[1], a[2])
        \/ \E id \in 1..nextSubID : Call_PubSubUnsubscribe(t, id)
        \/ \E p \in Paths : Call_PubSubCloseRepoSubscriptions(t, p)
        \/ Call_PubSubCloseAllSubscriptions(t)
        \/ \E p \in CleanupPaths : Call_CleanupNode(t, p)
        \/ AcquireNode_Enter(t)
        \/ AcquireNode_Create(t)
        \/ ReleaseNode_Call(t)
        \/ PubSubSubscribe_Register(t)
        \/ PubSubUnsubscribe_Lookup(t)
        \/ PubSubUnsubscribe_Release(t)
        \/ PubSubCloseRepoSubscriptions_Close(t)
        \/ PubSubCloseAllSubscriptions_Close(t)
        \/ BulkRelease(t)
        \/ P2PCloseAllListeners_Body(t)
        \/ P2PCloseAllForwards_Body(t)
        \/ CleanupNode_ForceClose(t)
        \/ Return(t)

\* two threads subscribing on two paths and calling the teardown operations
SpecTeardown == Init /\ [][NextTeardown]_vars

NextRun ==
    \/ \E t \in Logged : \E p \in CleanupPaths : Call_RunNode(t, p)
    \/ \E t \in ApiThreads :
        \/ \E p \in CleanupPaths : Call_P2PEnable(t, p)
        \/ \E p \in CleanupPaths : \E topic \in Topics : Call_PubSubSubscribe(t, p, topic)
        \/ \E id \in 1..nextSubID : Call_PubSubUnsubscribe(t, id)
        \/ \E p \in CleanupPaths : Call_PubSubCloseRepoSubscriptions(t, p)
        \/ Call_PubSubCloseAllSubscriptions(t)
    \/ \E t \in Threads :
        \/ AcquireNode_Enter(t)
        \/ AcquireNode_Create(t)
        \/ ReleaseNode_Call(t)
        \/ PubSubSubscribe_Register(t)
        \/ PubSubUnsubscribe_Lookup(t)
        \/ PubSubUnsubscribe_Release(t)
        \/ PubSubCloseRepoSubscriptions_Close(t)
        \/ PubSubCloseAllSubscriptions_Close(t)
        \/ BulkRelease(t)
        \/ Return(t)

\* one caller starting the node of a path with RunNode, two threads calling a short-lived
\* operation and the subscription operations on it; nobody calls CleanupNode
SpecRun == Init /\ [][NextRun]_vars

NextGoSrc ==
    \/ \E t \in Logged : \E p \in Paths : Call_RunNode(t, p)
    \/ \E t \in ApiThreads : \E op \in SpawnNodeOps : \E p \in Paths :
          Call_SpawnNodeOp(t, op, p)
    \/ \E t \in Threads :
        \/ AcquireNode_Enter(t)
        \/ AcquireNode_Create(t)
        \/ SpawnNode_DeferredClose(t)
        \/ Return(t)

\* the go_src library: one caller starting nodes with RunNode, two threads calling the
\* go_src AddFile, GetFile and ConnectToPeer
SpecGoSrc == Init /\ [][NextGoSrc]_vars

\* the steps of a call of the subscribing thread after its entry
SubscriberStep(t) ==
    \/ AcquireNode_Enter(t)
    \/ AcquireNode_Create(t)
    \/ PubSubSubscribe_Register(t)
    \/ PubSubUnsubscribe_Lookup(t)
    \/ PubSubUnsubscribe_Release(t)
    \/ PubSubCloseRepoSubscriptions_Close(t)
    \/ PubSubCloseAllSubscriptions_Close(t)
    \/ BulkRelease(t)
    \/ Return(t)

\* the steps of the messageReceiver goroutine r
ReceiverStep(r) ==
    \/ messageReceiver_Lookup(r)
    \/ messageReceiver_Select(r)
    \/ messageReceiver_Receive(r)
    \/ messageReceiver_Backoff(r)
    \/ messageReceiver_Append(r)

NextReceiver ==
    \/ \E t \in Subscribers :
        \/ \E a \in MsgSubscribeArgs : Call_PubSubSubscribe(t, a[1], a[2])
        \/ \E id \in 1..nextSubID : Call_PubSubUnsubscribe(t, id)
        \/ \E p \in Paths : Call_PubSubCloseRepoSubscriptions(t, p)
        \/ Call_PubSubCloseAllSubscriptions(t)
        \/ SubscriberStep(t)
    \/ \E r \in SubInfoIds :
        \/ ReceiverStep(r)
        \/ RuntimeProduce(r)

\* one thread opening and closing subscriptions, the receivers with every blocking point
\* of their loop a step; a call that has started goes on, and the Go scheduler runs every
\* goroutine that can run
SpecReceiver ==
    /\ Init /\ [][NextReceiver]_vars
    /\ \A t \in Subscribers : WF_vars(SubscriberStep(t))
    /\ \A r \in SubInfoIds : WF_vars(ReceiverStep(r))

\* two threads calling the operations that take a lock, with the receivers: subscriptions
\* and CleanupNode on one path, the transient operation on either
SpecLocks == Init /\ [][NextLocks]_vars

\* two threads calling CleanupNode and the operations that borrow the node of its path
Spec == Init /\ [][Next]_vars

\* ------------------------------------------------------------- the call log
IsAcq(e) == e = "acq"
IsRel(e) == e = "rel"

\* successful acquires minus release calls
NetCount(log) ==
    Len(SelectSeq(log, IsAcq)) - Len(SelectSeq(log, IsRel))

\* the same count, where a release arriving at count 0 is not counted
RECURSIVE FlooredCount(_)
FlooredCount(log) ==
    IF log = <<>> THEN 0
    ELSE LET before == FlooredCount(SubSeq(log, 1, Len(log) - 1))
             e == log[Len(log)] IN
         IF e = "acq" THEN before + 1
         ELSE IF e = "rel" /\ before > 0 THEN before - 1
         ELSE before

\* log is n successful acquires followed by m <= n releases, n >= 1
AcquiresThenReleases(log) ==
    /\ Len(log) >= 1
    /\ \A i \in 1..Len(log) : log[i] \in {"acq", "rel"}
    /\ \A i \in 1..Len(log) : \A j \in 1..Len(log) : (log[i] = "rel" /\ log[j] = "acq") => j < i
    /\ NetCount(log) >= 0

\* ------------------------------------------------------------- claims

\* C1 as stated: after any sequence of AcquireNode(p) / ReleaseNode(p) calls, a handle
\* for p is registered iff successful acquires minus release calls is greater than 0.
C1_RegisteredIffNetCount ==
    \A p \in Paths : Registered(p) <=> NetCount(callLog[p]) > 0

\* C1 amended: a handle for p is registered iff the net acquire count is greater than 0,
\* where a ReleaseNode(p) that finds no handle registered is not counted.
C1_RegisteredIffFlooredCount ==
    \A p \in Paths : Registered(p) <=> FlooredCount(callLog[p]) > 0

C1_Witness ==
    \E p \in Paths : callLog[p] = <<"rel", "acq">> /\ Registered(p)

\* C2: N concurrent AcquireNode(p) calls that find no handle registered construct the
\* runtime exactly once, all return successfully with the same instance, and the
\* registered RefCount is N once all have returned.
C2_OneConstruction ==
    \A p \in Paths :
        (callLog[p] # <<>> /\ \A i \in 1..Len(callLog[p]) : callLog[p][i] = "acq")
        => /\ Cardinality(InstancesOf(p)) = 1
           /\ Registered(p)
           /\ activeNodes[p].RefCount = Len(callLog[p])
           /\ \A t \in Threads :
                (pc[t] = "done" /\ loc[t].op = "AcquireNode" /\ loc[t].path = p)
                => loc[t].ret = 0 /\ loc[t].node = activeNodes[p].Node

C2_Witness ==
    \E p \in Paths :
        /\ \A t \in Threads :
             /\ pc[t] = "done" /\ loc[t].op = "AcquireNode" /\ loc[t].path = p
             /\ ~obs[t].hadHandle
        /\ Len(callLog[p]) = Cardinality(Threads)
        /\ activeNodes[p].RefCount = Cardinality(Threads)

\* C3: n calls of AcquireNode(p) followed by n calls of ReleaseNode(p) close the runtime
\* exactly once, at the n-th release: before it the handle is registered and open.
C3_ClosedAtLastRelease ==
    \A p \in Paths :
        AcquiresThenReleases(callLog[p])
        => LET net == NetCount(callLog[p]) IN
           /\ ClosesOf(p) = (IF net = 0 THEN 1 ELSE 0)
           /\ Registered(p) <=> net > 0
           /\ Registered(p) =>
                /\ activeNodes[p].RefCount = net
                /\ nodes[activeNodes[p].Node].closes = 0

C3_Witness ==
    \E p \in Paths :
        /\ callLog[p] = <<"acq", "acq", "rel", "rel">>
        /\ ~Registered(p)
        /\ ClosesOf(p) = 1

\* C4: ReleaseNode(p) with no handle registered for p changes no registry state and
\* closes nothing, and no runtime instance has Close called on it more than once.
C4_OverReleaseIsNoOp ==
    /\ [](\A i \in 1..Len(nodes) : nodes[i].closes <= 1)
    /\ [][\A p \in Paths :
            (callLog'[p] = Append(callLog[p], "rel") /\ ~Registered(p))
            => (activeNodes' = activeNodes /\ nodes' = nodes)]_vars

C4_Witness ==
    \E p \in Paths :
        /\ callLog[p] = <<"acq", "rel", "rel">>
        /\ ClosesOf(p) = 1
        /\ ~Registered(p)

\* C5: after PubSubCloseRepoSubscriptions(p) has closed k >= 1 subscriptions, each holding
\* one borrow taken by PubSubSubscribe, the RefCount of p is k lower than before the call
\* (no handle is left when nothing else borrows it), for every k.
C5_BulkCloseReleasesEveryBorrow ==
    \A t \in Threads :
        (/\ pc[t] = "done"
         /\ loc[t].op = "PubSubCloseRepoSubscriptions"
         /\ obs[t].solo
         /\ loc[t].ret >= 1
         /\ obs[t].refBefore >= loc[t].ret)
        => RefCountOf(loc[t].path) = obs[t].refBefore - loc[t].ret

\* C6: a bulk close calls ReleaseNode once for each distinct repo path among the
\* subscriptions it closes, however many share the path, and never for another path.
C6_OneReleasePerDistinctPath ==
    \A t \in Threads :
        loc[t].op \in {"PubSubCloseRepoSubscriptions", "PubSubCloseAllSubscriptions"}
        => \A p \in Paths :
             /\ obs[t].released[p] <= (IF obs[t].closed[p] > 0 THEN 1 ELSE 0)
             /\ pc[t] = "done" => obs[t].released[p] = (IF obs[t].closed[p] > 0 THEN 1 ELSE 0)
             /\ (loc[t].op = "PubSubCloseRepoSubscriptions" /\ p # loc[t].path)
                => obs[t].closed[p] = 0

C6_Witness ==
    \E t \in Threads :
        /\ pc[t] = "done"
        /\ loc[t].op = "PubSubCloseRepoSubscriptions"
        /\ loc[t].ret = 2
        /\ obs[t].closed[loc[t].path] = 2
        /\ obs[t].released[loc[t].path] = 1

\* C7: every registered subscription has an ownerPath whose handle is registered with
\* RefCount >= 1, in every reachable state.
C7_SubscriptionHoldsBorrow ==
    \A id \in DOMAIN subscriptions :
        /\ Registered(subscriptions[id].repoPath)
        /\ activeNodes[subscriptions[id].repoPath].RefCount >= 1

\* the order of the stages of CleanupNode the claims state
CleanupOrder ==
    <<"P2PCloseAllListeners", "P2PCloseAllForwards", "PubSubCloseRepoSubscriptions", "forceClose">>

\* C8: every run of CleanupNode(p) closes the exposures, then the forwards, then the
\* subscriptions, and force-closes the handle only after these three have returned.
C8_CleanupStagesInOrder ==
    \A t \in Threads :
        loc[t].op = "CleanupNode"
        => LET finished == obs[t].stages IN
           /\ Len(finished) <= Len(CleanupOrder)
           /\ finished = SubSeq(CleanupOrder, 1, Len(finished))
           /\ IF pc[t] = "done"
              THEN finished = CleanupOrder
              ELSE loc[t].fn = CleanupOrder[Len(finished) + 1]
           /\ pc[t] = "forceClose" => Len(finished) = 3

C8_Witness ==
    \E t \in Threads :
        /\ pc[t] = "done"
        /\ loc[t].op = "CleanupNode"
        /\ obs[t].stages = CleanupOrder
        /\ obs[t].closed[loc[t].path] = 1
        /\ loc[t].ret = 0

\* C9: CleanupNode(p) returns -1 only if no handle was registered for p when it was
\* called, and 0 whenever one was (here: with no other operation running).
C9_NegativeOnlyIfNothingRegistered ==
    \A t \in Threads :
        (pc[t] = "done" /\ loc[t].op = "CleanupNode" /\ obs[t].solo)
        => /\ loc[t].ret = -1 => ~obs[t].hadHandle
           /\ obs[t].hadHandle => loc[t].ret = 0

\* C10: CleanupNode(p) called alone with a handle of any RefCount >= 1 returns with that
\* runtime closed exactly once, no handle for p registered, no subscription of p left.
C10_SoloCleanupClosesOnce ==
    \A t \in Threads :
        (/\ pc[t] = "done"
         /\ loc[t].op = "CleanupNode"
         /\ obs[t].solo
         /\ obs[t].refBefore >= 1)
        => /\ ~Registered(loc[t].path)
           /\ SubsOf(subscriptions, loc[t].path) = {}
           /\ nodes[obs[t].nodeBefore].closes = 1

C10_Witness ==
    \E t \in Threads :
        /\ pc[t] = "done"
        /\ loc[t].op = "CleanupNode"
        /\ obs[t].solo
        /\ obs[t].refBefore = 2
        /\ obs[t].closed[loc[t].path] = 1
        /\ nodes[obs[t].nodeBefore].closes = 1

\* C11: whatever the interleaving of AcquireNode / ReleaseNode with the force close of
\* CleanupNode, no entry of activeNodes holds a closed runtime, and every AcquireNode
\* that returns a runtime returns one that is open at that moment (after a force close
\* of the path: a newly constructed one).
C11_NoStaleInstanceAfterForceClose ==
    /\ [](\A p \in DOMAIN activeNodes : nodes[activeNodes[p].Node].closes = 0)
    /\ [][\A t \in Threads :
            (pc[t] \in {"acquire", "createNewNode"} /\ loc'[t].node # 0)
            => /\ nodes'[loc'[t].node].closes = 0
               /\ nodes'[loc'[t].node].repo = loc[t].path
               /\ \A i \in 1..Len(nodes) :
                     nodes[i].closes > 0 => loc'[t].node # i]_vars

C11_Witness ==
    \E t \in Threads : \E u \in Threads \ {t} : \E i \in 1..Len(nodes) :
        /\ loc[u].op = "CleanupNode" /\ pc[u] = "done" /\ loc[u].ret = 0
        /\ loc[t].op = "RunNode" /\ pc[t] = "done"
        /\ loc[t].path = loc[u].path
        /\ nodes[i].repo = loc[t].path /\ nodes[i].closes = 1
        /\ loc[t].node > i
        /\ nodes[loc[t].node].closes = 0
        /\ Registered(loc[t].path) /\ activeNodes[loc[t].path].Node = loc[t].node

\* C12: a PubSubSubscribe whose runtime Subscribe fails returns a negative id, stores no
\* subscription, starts no messageReceiver and releases the borrow it took: the RefCount
\* of its path (or the absence of a handle) is as before the call.
C12_FailedSubscribeLeavesNothing ==
    /\ [](\A t \in Threads :
            (/\ pc[t] = "done" /\ loc[t].op = "PubSubSubscribe" /\ loc[t].ret = -2
             /\ obs[t].solo)
            => /\ Registered(loc[t].path) = obs[t].hadHandle
               /\ RefCountOf(loc[t].path) = obs[t].refBefore
               /\ loc[t].subID = 0)
    /\ [][\A t \in Threads :
            (/\ loc[t].op = "PubSubSubscribe"
             /\ pc[t] \in {"subscribe", "release"}
             /\ pc'[t] # pc[t]
             /\ loc'[t].ret = -2)
            => /\ subscriptions' = subscriptions
               /\ nextSubID' = nextSubID
               /\ subInfos' = subInfos
               /\ receivers' = receivers]_vars

C12_Witness ==
    \E t \in Threads :
        /\ pc[t] = "done" /\ loc[t].op = "PubSubSubscribe" /\ loc[t].ret = -2
        /\ obs[t].solo
        /\ obs[t].refBefore = 1
        /\ RefCountOf(loc[t].path) = 1
        /\ receivers = <<>>

\* C13: PubSubUnsubscribe(id) on a registered id cancels the subscription, removes it
\* from the map and calls ReleaseNode on its path once; a further PubSubUnsubscribe(id)
\* releases nothing, so no subscription is released more than once by unsubscribe calls.
C13_UnsubscribeReleasesOnce ==
    /\ [](\A k \in 1..Len(subLog) : subLog[k].released <= 1)
    /\ [](\A t \in Threads :
            (pc[t] = "done" /\ loc[t].op = "PubSubUnsubscribe" /\ loc[t].ret = 0)
            => /\ subLog[loc[t].subInfo].released = 1
               /\ subInfos[loc[t].subInfo].cancelled
               /\ subInfos[loc[t].subInfo].subscription.closed
               /\ \A id \in DOMAIN subscriptions :
                     subscriptions[id].subInfo # loc[t].subInfo)
    /\ [][\A t \in Threads :
            (loc[t].op = "PubSubUnsubscribe" /\ pc[t] # "idle" /\ pc'[t] # pc[t])
            => IF pc'[t] = "done" /\ loc'[t].ret = 0
               THEN /\ loc[t].subID \in DOMAIN subscriptions
                    /\ \A p \in Paths :
                         IF p = subscriptions[loc[t].subID].repoPath /\ Registered(p)
                         THEN RefCountOf(p) - RefCountOf(p)' = 1
                         ELSE RefCountOf(p)' = RefCountOf(p)
               ELSE activeNodes' = activeNodes /\ nodes' = nodes]_vars

C13_Witness ==
    \E t \in Threads :
        /\ pc[t] = "done" /\ loc[t].op = "PubSubUnsubscribe" /\ loc[t].ret = -1
        /\ loc[t].subID <= Len(subLog)
        /\ subLog[loc[t].subID].released = 1
        /\ subInfos[loc[t].subID].cancelled

\* C14: PubSubUnsubscribe(id) with an id that is not in the map returns -1 and leaves
\* the subscriptions, every message queue and every node RefCount as they were.
C14_UnknownUnsubscribeChangesNothing ==
    [][\A t \in Threads :
         (loc[t].op = "PubSubUnsubscribe" /\ pc[t] = "unsubscribe" /\ pc'[t] # pc[t])
         => IF loc[t].subID \notin DOMAIN subscriptions
            THEN /\ pc'[t] = "done"
                 /\ loc'[t].ret = -1
                 /\ subscriptions' = subscriptions
                 /\ nextSubID' = nextSubID
                 /\ subInfos' = subInfos
                 /\ receivers' = receivers
                 /\ activeNodes' = activeNodes
                 /\ nodes' = nodes
            ELSE pc'[t] = "unsubRelease"]_vars

C14_Witness ==
    \E t \in Threads :
        /\ pc[t] = "done" /\ loc[t].op = "PubSubUnsubscribe" /\ loc[t].ret = -1
        /\ \E id \in DOMAIN subscriptions :
              Len(subInfos[subscriptions[id].subInfo].messageQueue) = 2

\* the payloads of a sequence of messages
DataOf(q) == [i \in 1..Len(q) |-> q[i].Data]

\* the message a receiver of subscription k holds between Next and the append
InFlight(k) ==
    LET rs == {r \in DOMAIN receivers :
                 receivers[r].subscription = k /\ receivers[r].pc = "append"} IN
    IF rs = {} THEN <<>> ELSE <<receivers[CHOOSE r \in rs : TRUE].msg>>

\* C15: for each subscription the messages PubSubNextMessage has returned are, in order,
\* the first messages the runtime produced to it: none reordered, duplicated or skipped
\* (returned, queued, held by the receiver and not yet received make up the produced
\* sequence), also while the receiver appends concurrently.
C15_PolledIsPrefixOfProduced ==
    \A k \in DOMAIN subInfos :
        /\ DataOf(subLog[k].polled) = [i \in 1..Len(subLog[k].polled) |-> <<k, i>>]
        /\ DataOf(subLog[k].polled \o subInfos[k].messageQueue
                  \o InFlight(k) \o subInfos[k].subscription.inbox)
           = [i \in 1..subInfos[k].subscription.sent |-> <<k, i>>]

C15_Witness ==
    \E k \in DOMAIN subInfos :
        /\ DataOf(subLog[k].polled) = <<(<<k, 1>>), (<<k, 2>>)>>
        /\ \E t \in Threads :
              /\ pc[t] = "done" /\ loc[t].op = "PubSubNextMessage"
              /\ loc[t].msg.Data = <<k, 2>>

\* C16: PubSubNextMessage never waits for a message. With the id registered and the
\* queue non-empty it removes and returns the oldest message; with the queue empty or
\* the id unknown it returns nil and changes no queue and no registry.
C16_NextMessageNeverWaits ==
    /\ [](\A t \in Threads :
            /\ pc[t] = "nextPop" => ENABLED PubSubNextMessage_Pop(t)
            /\ (pc[t] = "nextMessage" /\ subscriptionsMutex = Unlocked)
               => ENABLED PubSubNextMessage_Lookup(t))
    /\ [][\A t \in Threads :
            (loc[t].op = "PubSubNextMessage" /\ pc[t] \in {"nextMessage", "nextPop"}
             /\ pc'[t] # pc[t])
            => /\ subscriptions' = subscriptions
               /\ nextSubID' = nextSubID
               /\ activeNodes' = activeNodes
               /\ nodes' = nodes
               /\ receivers' = receivers
               /\ IF pc[t] = "nextMessage"
                  THEN /\ subInfos' = subInfos
                       /\ IF loc[t].subID \in DOMAIN subscriptions
                          THEN pc'[t] = "nextPop"
                          ELSE pc'[t] = "done" /\ loc'[t].msg = NoMsg
                  ELSE /\ pc'[t] = "done"
                       /\ \A k \in DOMAIN subInfos :
                            IF k = loc[t].subInfo /\ subInfos[k].messageQueue # <<>>
                            THEN /\ loc'[t].msg = Head(subInfos[k].messageQueue)
                                 /\ subInfos'[k].messageQueue = Tail(subInfos[k].messageQueue)
                                 /\ subInfos'[k].subscription = subInfos[k].subscription
                            ELSE /\ subInfos'[k] = subInfos[k]
                                 /\ k = loc[t].subInfo => loc'[t].msg = NoMsg]_vars

C16_Witness ==
    \E t \in Threads : \E k \in DOMAIN subInfos :
        /\ pc[t] = "done" /\ loc[t].op = "PubSubNextMessage"
        /\ loc[t].subInfo = k
        /\ loc[t].msg = NoMsg
        /\ subInfos[k].messageQueue = <<>>
        /\ subInfos[k].subscription.inbox # <<>>
        /\ Len(subLog[k].polled) = 1

\* the messages that have reached the queue of subscriptionInfo k
Queued(k) == subLog[k].polled \o subInfos[k].messageQueue

\* C17: every message in the queue of a subscription was produced by that subscription's
\* own runtime subscription and carries the subscription's topic as TopicID: a message
\* of topic A never reaches the queue of a subscription opened for topic B.
C17_QueueHoldsOwnTopicOnly ==
    \A k \in DOMAIN subInfos :
        \A i \in 1..Len(Queued(k)) :
            /\ Queued(k)[i].Data[1] = k
            /\ Queued(k)[i].TopicID = subInfos[k].topic
            /\ Queued(k)[i].Topics = <<subInfos[k].topic>>

C17_Witness ==
    \E k1 \in DOMAIN subInfos : \E k2 \in DOMAIN subInfos :
        /\ subInfos[k1].topic = "news" /\ subInfos[k2].topic = "chat"
        /\ Len(Queued(k1)) = 1 /\ Len(Queued(k2)) = 1
        /\ receivers[k1].pc = "loop" /\ receivers[k2].pc = "loop"

\* C18: the ids successful PubSubSubscribe calls return are 1, 2, 3, ... in the order of
\* their registration, each greater than all before, also for concurrent calls; an id
\* in the map always denotes the subscription it was issued for, never a later one.
C18_SubscriptionIdsIncrease ==
    /\ [](/\ \A r \in DOMAIN receivers : receivers[r].subID = r
          /\ nextSubID = Len(receivers) + 1
          /\ \A id \in DOMAIN subscriptions :
                id < nextSubID /\ subscriptions[id].subInfo = id)
    /\ [][\A t \in Threads :
            (loc[t].op = "PubSubSubscribe" /\ pc[t] = "subscribe" /\ pc'[t] = "done")
            => /\ loc'[t].ret = nextSubID
               /\ loc'[t].ret >= 1
               /\ \A r \in DOMAIN receivers : receivers[r].subID < loc'[t].ret
               /\ nextSubID' > nextSubID]_vars

C18_Witness ==
    \E t \in Threads : \E u \in Threads :
        /\ pc[t] = "done" /\ loc[t].op = "PubSubSubscribe" /\ loc[t].ret = 1
        /\ pc[u] = "done" /\ loc[u].op = "PubSubSubscribe" /\ loc[u].ret = 2
        /\ ~obs[t].solo /\ ~obs[u].solo
        /\ loc[t].path = loc[u].path

\* C19: when PubSubCloseRepoSubscriptions(p) has returned no subscription of p is left in
\* the map, every subscription of another path is still there with its queue as it was,
\* and PubSubNextMessage on a closed id returns nil.
C19_CloseRepoRemovesOnlyItsPath ==
    /\ [](\A t \in Subscribers :
            (pc[t] = "done" /\ loc[t].op = "PubSubCloseRepoSubscriptions")
            => \A id \in DOMAIN subscriptions : subscriptions[id].repoPath # loc[t].path)
    /\ [][\A t \in Threads :
            (loc[t].op = "PubSubCloseRepoSubscriptions"
             /\ pc[t] \in {"closeRepo", "bulkRelease"} /\ pc'[t] # pc[t])
            => \A id \in DOMAIN subscriptions :
                 IF subscriptions[id].repoPath = loc[t].path
                 THEN id \notin DOMAIN subscriptions'
                 ELSE /\ id \in DOMAIN subscriptions'
                      /\ subscriptions'[id] = subscriptions[id]
                      /\ subInfos'[subscriptions[id].subInfo]
                           = subInfos[subscriptions[id].subInfo]]_vars
    /\ [][\A t \in Threads :
            (/\ loc[t].op = "PubSubNextMessage" /\ pc[t] = "nextMessage" /\ pc'[t] # pc[t]
             /\ loc[t].subID \in DOMAIN subInfos
             /\ subInfos[loc[t].subID].cancelled)
            => pc'[t] = "done" /\ loc'[t].msg = NoMsg]_vars

C19_Witness ==
    \E t \in Threads : \E u \in Threads :
        /\ pc[t] = "done" /\ loc[t].op = "PubSubCloseRepoSubscriptions" /\ loc[t].ret = 1
        /\ \E id \in DOMAIN subscriptions :
              /\ subscriptions[id].repoPath # loc[t].path
              /\ subInfos[subscriptions[id].subInfo].messageQueue # <<>>
        /\ pc[u] = "done" /\ loc[u].op = "PubSubNextMessage" /\ loc[u].msg = NoMsg
        /\ loc[u].subID \in DOMAIN subInfos
        /\ subInfos[loc[u].subID].cancelled
        /\ subInfos[loc[u].subID].repoPath = loc[t].path
        /\ subInfos[loc[u].subID].messageQueue # <<>>

\* C20: a listener created by a successful P2PListen or P2PForward keeps the borrow that
\* call took until it is closed explicitly: after the call has returned (nothing else
\* running, nothing closed) the handle of its path is registered and its runtime open.
C20_ListenerKeepsBorrow ==
    \A t \in Threads :
        (/\ pc[t] = "done"
         /\ loc[t].op \in {"P2PListen", "P2PForward"}
         /\ loc[t].ret = 1
         /\ obs[t].solo)
        => /\ Registered(loc[t].path)
           /\ nodes[loc[t].node].closes = 0

\* ------------------------------------------------------------- C21
\* a logged call that is a successful P2PListen
IsListenOk(e) == e.op = "P2PListen" /\ e.ret = 1

\* a logged P2PClose on the path and protocol of the logged call e, with the protocol as
\* its only filter, matchAll false and only the exposure table selected
IsExposureCloseOf(c, e) ==
    /\ c.op = "P2PClose" /\ c.path = e.path /\ c.proto = e.proto
    /\ c.args = [NoArgs EXCEPT !.listeners = TRUE]

\* C21: in the calls of the sequential caller, a P2PClose on the protocol of the
\* successful P2PListen made just before it, with matchAll false and the exposure table
\* selected, returns 1, and the identical P2PClose made right after it returns 0.
C21_CloseAfterListenReturnsOne ==
    \A k \in 1..Len(opLog) :
        (/\ k + 1 <= Len(opLog)
         /\ IsListenOk(opLog[k])
         /\ IsExposureCloseOf(opLog[k + 1], opLog[k]))
        => /\ opLog[k + 1].ret = 1
           /\ (k + 2 <= Len(opLog) /\ IsExposureCloseOf(opLog[k + 2], opLog[k]))
              => opLog[k + 2].ret = 0

\* ------------------------------------------------------------- C22
\* the streams of table strs open under a protocol of an entry of listener table tbl
StreamsUnder(strs, tbl) ==
    {strs[k] : k \in {j \in 1..Len(strs) : strs[j].Protocol \in ProtocolsOf(tbl)}}

StreamsOf(strs) == {strs[k] : k \in 1..Len(strs)}

\* C22: the step of P2PCloseAllListeners that closes leaves no exposure entry on the node
\* and none of the streams that were open under a protocol of the exposures it removed;
\* the step of P2PCloseAllForwards does the same for the forward entries.
C22_BulkCloseAlsoClosesStreams ==
    [][\A t \in ApiThreads :
         LET i == loc[t].node IN
         /\ (pc[t] = "closeListeners" /\ pc'[t] = "release")
            => /\ nodes'[i].ListenersP2P = <<>>
               /\ StreamsUnder(nodes[i].Streams, nodes[i].ListenersP2P)
                    \cap StreamsOf(nodes'[i].Streams) = {}
         /\ (pc[t] = "closeForwards" /\ pc'[t] = "release")
            => /\ nodes'[i].ListenersLocal = <<>>
               /\ StreamsUnder(nodes[i].Streams, nodes[i].ListenersLocal)
                    \cap StreamsOf(nodes'[i].Streams) = {}]_vars

\* ------------------------------------------------------------- C23
\* the three P2P tables of runtime instance n
TablesOf(n) ==
    [Forwards |-> n.ListenersLocal, Listens |-> n.ListenersP2P, Streams |-> n.Streams]

\* C23: a P2PListListeners(p) call that runs with no other call in progress changes, at
\* none of its steps, a table (forwards, exposures, streams) of any runtime instance or
\* the registry entry of another path, and when it has returned p is registered iff it
\* was at the call, with the same node and the same RefCount.
C23_ListListenersChangesNothing ==
    /\ [](\A t \in ApiThreads :
            (pc[t] = "done" /\ loc[t].op = "P2PListListeners" /\ obs[t].solo)
            => /\ Registered(loc[t].path) = obs[t].hadHandle
               /\ RefCountOf(loc[t].path) = obs[t].refBefore
               /\ obs[t].hadHandle => activeNodes[loc[t].path].Node = obs[t].nodeBefore)
    /\ [][\A t \in ApiThreads :
            (loc[t].op = "P2PListListeners" /\ pc'[t] # pc[t] /\ obs[t].solo)
            => /\ \A i \in DOMAIN nodes : TablesOf(nodes'[i]) = TablesOf(nodes[i])
               /\ \A q \in Paths \ {loc[t].path} :
                     /\ Registered(q) <=> q \in DOMAIN activeNodes'
                     /\ Registered(q) => activeNodes'[q] = activeNodes[q]]_vars

\* a call of P2PListListeners, alone, has returned a listing with an exposure in it
C23_Witness ==
    \E t \in ApiThreads :
        /\ pc[t] = "done" /\ loc[t].op = "P2PListListeners" /\ obs[t].solo
        /\ obs[t].hadHandle
        /\ loc[t].listing.Listens # <<>>
        /\ nodes[obs[t].nodeBefore].ListenersP2P = loc[t].listing.Listens

\* ------------------------------------------------------------- C24
\* C24: a returned P2PForward has status -1 exactly when it got no node, -3 exactly when
\* it got one and the listen address does not parse, -4 exactly when the address parses
\* and the peer id does not decode, and -2 or 1 exactly when both are well formed; the
\* step that makes the forward returns 1 exactly when it adds the entry to the forward
\* table, and with any other status it has a negative status and changes no table.
C24_ForwardFailuresAreDistinct ==
    /\ [](\A t \in ApiThreads :
            (pc[t] = "done" /\ loc[t].op = "P2PForward")
            => LET l == loc[t]
                   addrOk == ParsesAddr(l.args.listenAddr)
                   peerOk == DecodesPeer(l.args.peerID) IN
               /\ (l.ret = -1) <=> (l.node = 0)
               /\ (l.ret = -3) <=> (l.node # 0 /\ ~addrOk)
               /\ (l.ret = -4) <=> (l.node # 0 /\ addrOk /\ ~peerOk)
               /\ (l.ret \in {-2, 1}) <=> (l.node # 0 /\ addrOk /\ peerOk))
    /\ [][\A t \in ApiThreads :
            (pc[t] = "forward" /\ pc'[t] = "release")
            => LET i == loc[t].node
                   e == ListenerEntry(loc[t].proto, loc[t].args.listenAddr,
                                      "/p2p/" \o loc[t].args.peerID) IN
               IF loc'[t].ret = 1
               THEN nodes' = [nodes EXCEPT ![i].ListenersLocal = Append(@, e)]
               ELSE loc'[t].ret < 0 /\ nodes' = nodes]_vars

\* two P2PForward calls have returned, one rejected for its address and one for its peer id
C24_Witness ==
    \E t, u \in ApiThreads :
        /\ pc[t] = "done" /\ loc[t].op = "P2PForward" /\ loc[t].ret = -3
        /\ pc[u] = "done" /\ loc[u].op = "P2PForward" /\ loc[u].ret = -4

\* ------------------------------------------------------------- C25
\* the exported operations that return an integer status
StatusOps ==
    {"Download", "PinCID", "UnpinCID", "ConnectToPeer", "P2PListen", "P2PForward", "P2PClose"}

\* the stages that reject an argument that does not parse
InputStages == {"decode", "address", "peerID", "peerAddr"}

\* why the returned call with locals l failed: "node" when AcquireNode failed (no stage
\* was reached), "input" for an argument that does not parse, "runtime" for a failure of
\* the runtime, the network or the file system, "ok" when no stage failed
FailureClass(l) ==
    IF l.stage = "none" THEN "node"
    ELSE IF l.stage \in InputStages THEN "input"
    ELSE IF l.stage = "ok" THEN "ok"
    ELSE "runtime"

\* C25: of two returned calls of the same status-returning operation, one failed for a
\* malformed argument and the other for an unavailable node or in the runtime, the first
\* has a negative status different from the status of the second; and two Download calls
\* that failed at different ones of the stages decode, fetch, mkdir and unknown node type
\* have different statuses.
C25_MalformedInputHasOwnCode ==
    \A t, u \in ApiThreads :
        (/\ pc[t] = "done" /\ pc[u] = "done"
         /\ loc[t].op \in StatusOps /\ loc[u].op = loc[t].op)
        => /\ (FailureClass(loc[t]) = "input" /\ FailureClass(loc[u]) \in {"node", "runtime"})
              => (loc[t].ret < 0 /\ loc[t].ret # loc[u].ret)
           /\ (/\ loc[t].op = "Download"
               /\ {loc[t].stage, loc[u].stage} \subseteq {"decode", "fetch", "mkdir", "unknownType"}
               /\ loc[t].stage # loc[u].stage)
              => loc[t].ret # loc[u].ret

\* ------------------------------------------------------------- C26
\* the direct AcquireNode call of thread t fails at this step
AcquireFails(t) ==
    /\ loc[t].op = "AcquireNode" /\ pc[t] = "createNewNode"
    /\ pc'[t] = "done" /\ loc'[t].ret = -1

\* C26: the step at which a direct AcquireNode(p) fails returns the error, leaves the
\* registry (the entry of every path, p included) and the runtime instances as they
\* were, with p not registered; every registered entry refers to a constructed instance
\* of its own path with RefCount at least 1; and an AcquireNode(p) that finds p not
\* registered after an earlier failure for p goes on to construct a node.
C26_FailedAcquireRegistersNothing ==
    /\ [](\A p \in DOMAIN activeNodes :
            /\ activeNodes[p].Node \in 1..Len(nodes)
            /\ nodes[activeNodes[p].Node].repo = p
            /\ activeNodes[p].RefCount >= 1)
    /\ [][\A t \in Threads :
            /\ AcquireFails(t)
               => /\ activeNodes' = activeNodes
                  /\ nodes' = nodes
                  /\ loc[t].path \notin DOMAIN activeNodes'
            /\ (/\ loc[t].op = "AcquireNode" /\ pc[t] = "acquire" /\ pc'[t] # "acquire"
                /\ ~Registered(loc[t].path)
                /\ \E k \in 1..Len(callLog[loc[t].path]) : callLog[loc[t].path][k] = "fail")
               => pc'[t] = "createNewNode"]_vars

\* an AcquireNode(p) failed while another path was registered, and a later AcquireNode(p)
\* constructed a node
C26_Witness ==
    \E p \in Paths :
        /\ \E k \in 1..Len(callLog[p]) :
              /\ callLog[p][k] = "fail"
              /\ k < Len(callLog[p]) /\ callLog[p][k + 1] = "acq"
        /\ Registered(p) /\ activeNodes[p].RefCount = 1
        /\ \E q \in Paths \ {p} : Registered(q)

\* ------------------------------------------------------------- C27
\* the call of thread t is a P2PClose with the protocol as its only filter and matchAll
\* false, at the step that closes the matching exposures
ClosesExposuresByName(t) ==
    /\ loc[t].op = "P2PClose" /\ pc[t] = "p2pClose" /\ pc'[t] = "release"
    /\ loc[t].args = [NoArgs EXCEPT !.listeners = TRUE]

\* what P2PForward, P2PListen and P2PClose hold as protocol name after their first lines:
\* name with "/x/" in front iff name is not empty and does not start with "/x/"
NameIsNormalized ==
    \A t \in ApiThreads :
        (pc[t] # "idle" /\ loc[t].op \in {"P2PForward", "P2PListen", "P2PClose"})
        => /\ loc[t].proto = (IF loc[t].name = <<>> /\ loc[t].op = "P2PClose" THEN <<>>
                              ELSE IF HasPrefix(loc[t].name, XPrefix) THEN loc[t].name
                              ELSE XPrefix \o loc[t].name)
           /\ loc[t].proto # <<>> => NormalizeProtocol(loc[t].proto) = loc[t].proto

\* C27 as stated: the names are normalized as described, and the closing step of a
\* P2PClose on the exposure table removes every exposure opened under a name n when its
\* filter name is n or "/x/" followed by n, and every exposure when its filter name is empty.
C27_FilterMatchesEitherName ==
    /\ []NameIsNormalized
    /\ [][\A t \in ApiThreads :
            ClosesExposuresByName(t)
            => LET i == loc[t].node IN
               \A e \in StreamsOf(nodes[i].ListenersP2P) :
                  /\ \A n \in P2PNames :
                        (NormalizeProtocol(n) = e.Protocol
                         /\ loc[t].name \in {n, XPrefix \o n})
                        => e \notin StreamsOf(nodes'[i].ListenersP2P)
                  /\ loc[t].name = <<>> => e \notin StreamsOf(nodes'[i].ListenersP2P)]_vars

\* C27 amended: the same, with the filter "/x/" followed by n only for a name n that does
\* not itself start with "/x/".
C27_FilterMatchesNormalizedName ==
    /\ []NameIsNormalized
    /\ [][\A t \in ApiThreads :
            ClosesExposuresByName(t)
            => LET i == loc[t].node IN
               \A e \in StreamsOf(nodes[i].ListenersP2P) :
                  /\ \A n \in P2PNames :
                        (/\ NormalizeProtocol(n) = e.Protocol
                         /\ \/ loc[t].name = n
                            \/ loc[t].name = XPrefix \o n /\ ~HasPrefix(n, XPrefix))
                        => e \notin StreamsOf(nodes'[i].ListenersP2P)
                  /\ loc[t].name = <<>> => e \notin StreamsOf(nodes'[i].ListenersP2P)]_vars

\* a P2PClose given the name without "/x/" has closed an exposure registered under the
\* name with it
C27_Witness ==
    \E t \in ApiThreads :
        /\ pc[t] = "done" /\ loc[t].op = "P2PClose" /\ loc[t].ret = 1
        /\ loc[t].args = [NoArgs EXCEPT !.listeners = TRUE]
        /\ loc[t].name = <<"e">> /\ loc[t].proto = XPrefix \o <<"e">>

\* ------------------------------------------------------------- C28
\* C28: the step of CreateRepo(path) that finds the path initialized returns 0 and leaves
\* every repository as it is; a returned CreateRepo has status 0, 1, -1 or -2, and 1 only
\* with the path initialized; and no step of the model changes a repository once it is
\* initialized, so a CreateRepo on it, repeated or not, leaves its state as it found it.
C28_CreateRepoIsIdempotent ==
    /\ [](\A t \in ApiThreads :
            (pc[t] = "done" /\ loc[t].op = "CreateRepo")
            => /\ loc[t].ret \in {0, 1, -1, -2}
               /\ loc[t].ret \in {0, 1} => repos[loc[t].path].initialized)
    /\ [][/\ \A t \in ApiThreads :
               (pc[t] = "createRepo" /\ pc'[t] # "createRepo"
                /\ repos[loc[t].path].initialized)
               => /\ pc'[t] = "done" /\ loc'[t].ret = 0
                  /\ repos' = repos
          /\ \A p \in Paths : repos[p].initialized => repos'[p] = repos[p]]_vars

\* CreateRepo has initialized a path for one caller and has returned 0 on the same path
\* to another, with the configuration of the first in place
C28_Witness ==
    \E t, u \in ApiThreads :
        /\ pc[t] = "done" /\ loc[t].op = "CreateRepo" /\ loc[t].ret = 1
        /\ pc[u] = "done" /\ loc[u].op = "CreateRepo" /\ loc[u].ret = 0
        /\ loc[u].path = loc[t].path
        /\ repos[loc[t].path] = [initialized |-> TRUE, config |-> loc[t].cfg]

\* ------------------------------------------------------------- C29
\* thread t is about to make the deferred ReleaseNode for a borrow of a runtime instance
\* that has been closed under it
HoldsStaleBorrow(t) ==
    /\ pc[t] = "release"
    /\ loc[t].node # 0
    /\ nodes[loc[t].node].closes > 0

\* C29: a ReleaseNode(p) that discharges a borrow of an instance closed by the force-close
\* of CleanupNode(p) changes no registry entry and closes no instance.
C29_StaleReleaseIsNoOp ==
    [][\A t \in ApiThreads :
          (HoldsStaleBorrow(t) /\ pc'[t] # "release")
          => (activeNodes' = activeNodes /\ nodes' = nodes)]_vars

\* without CleanupNode no borrowed instance is closed before the borrow is released
BorrowedInstanceIsOpen == \A t \in PubSubThreads : ~HoldsStaleBorrow(t)

\* ------------------------------------------------------------- C30
\* thread t is inside an operation
Busy(t) == pc[t] # "idle"

\* who holds a global mutex between steps: activeNodesMutex only a thread inside
\* createNewNode, subscriptionsMutex only a thread between the lookup and the return of
\* PubSubUnsubscribe or of a bulk close
LockDiscipline ==
    \A t \in ApiThreads :
        /\ activeNodesMutex = t <=> pc[t] = "createNewNode"
        /\ subscriptionsMutex = t <=> pc[t] \in {"unsubRelease", "bulkRelease"}

\* every holder of a lock can go on: the holder of activeNodesMutex needs no other lock,
\* the holder of subscriptionsMutex waits for activeNodesMutex at most; a thread or
\* receiver that cannot take a step waits for a lock another thread holds, and the
\* sections under a queue mutex wait for nothing
HoldersCanProceed ==
    /\ \A t \in ApiThreads :
          /\ activeNodesMutex = t => ENABLED AcquireNode_Create(t)
          /\ subscriptionsMutex = t
                => (ENABLED ThreadStep(t) \/ activeNodesMutex \notin {Unlocked, t})
          /\ Busy(t) => \/ ENABLED ThreadStep(t)
                        \/ activeNodesMutex \notin {Unlocked, t}
                        \/ subscriptionsMutex \notin {Unlocked, t}
          /\ pc[t] = "nextPop" => ENABLED PubSubNextMessage_Pop(t)
    /\ \A r \in DOMAIN receivers :
          /\ receivers[r].pc = "lookup"
                => (ENABLED messageReceiver_Lookup(r) \/ subscriptionsMutex # Unlocked)
          /\ receivers[r].pc = "append" => ENABLED messageReceiver_Append(r)

\* C30: the locks are taken in the order subscriptionsMutex, activeNodesMutex: a step that
\* takes subscriptionsMutex is made by a thread not holding activeNodesMutex, the holder
\* of activeNodesMutex touches no other lock, and the sections under a queue mutex (the
\* pop of PubSubNextMessage, the append of messageReceiver) leave both global locks
\* alone; and in no reachable state of subscribe, unsubscribe, nextMessage, bulk close, a
\* transient operation, the receivers and CleanupNode is a lock held by a thread that
\* cannot go on.
C30_LockOrderNoDeadlock ==
    /\ [](LockDiscipline /\ HoldersCanProceed)
    /\ [][/\ \A t \in ApiThreads :
               /\ (subscriptionsMutex' = t /\ subscriptionsMutex # t) => activeNodesMutex # t
               /\ (activeNodesMutex = t /\ pc'[t] # pc[t])
                     => subscriptionsMutex' = subscriptionsMutex
               /\ (pc[t] = "nextPop" /\ pc'[t] # "nextPop")
                     => /\ subscriptionsMutex' = subscriptionsMutex
                        /\ activeNodesMutex' = activeNodesMutex
          /\ \A r \in DOMAIN receivers :
               (receivers[r].pc = "append" /\ receivers'[r].pc # "append")
               => /\ subscriptionsMutex' = subscriptionsMutex
                  /\ activeNodesMutex' = activeNodesMutex]_vars

\* one thread holds subscriptionsMutex and waits for activeNodesMutex, which the other
\* holds while it constructs a node, and a receiver waits for subscriptionsMutex
C30_Witness ==
    \E t, u \in ApiThreads :
        /\ subscriptionsMutex = t /\ activeNodesMutex = u /\ t # u
        /\ ~ENABLED ThreadStep(t)
        /\ \E r \in DOMAIN receivers : receivers[r].pc = "lookup"

\* the step in which AcquireNode returns a node to thread t
AcquireReturnsNode(t) ==
    /\ pc[t] \in {"acquire", "createNewNode"}
    /\ pc'[t] # "createNewNode"
    /\ loc'[t].node # 0

\* C31: in every registry state visible outside activeNodesMutex each registered handle
\* has RefCount >= 1 and a runtime on which Close has not been called, and the node
\* AcquireNode returns is the registered one, counted and open.
C31_RegisteredIsCountedAndOpen ==
    /\ [](activeNodesMutex = Unlocked
          => \A p \in DOMAIN activeNodes :
                /\ activeNodes[p].RefCount >= 1
                /\ nodes[activeNodes[p].Node].closes = 0)
    /\ [][\A t \in Threads :
            AcquireReturnsNode(t)
            => LET p == loc[t].path IN
               /\ p \in DOMAIN activeNodes'
               /\ activeNodes'[p].Node = loc'[t].node
               /\ activeNodes'[p].RefCount >= 1
               /\ nodes'[loc'[t].node].closes = 0]_vars

\* a handle's count reached 0, it was closed and removed, and a later AcquireNode has
\* returned a newly constructed runtime
C31_Witness ==
    \E p \in Paths : \E t \in Threads :
        /\ Registered(p)
        /\ pc[t] # "idle" /\ loc[t].path = p /\ loc[t].node = activeNodes[p].Node
        /\ \E i \in InstancesOf(p) : i # activeNodes[p].Node /\ nodes[i].closes = 1
        /\ activeNodesMutex = Unlocked

\* ------------------------------------------------------------- C32
\* the exported operations that borrow the node for the length of one call
ShortLivedOps ==
    QueryOps \cup {"Download", "PinCID", "UnpinCID", "ConnectToPeer", "P2PClose",
                   "P2PListListeners", "P2PEnable", "P2PCloseAllListeners",
                   "P2PCloseAllForwards"}

\* the step in which thread t calls ReleaseNode
ReleaseCalled(t) == pc[t] = "release" /\ pc'[t] # "release"

\* the step in which the operation of thread t reaches its return to the caller
Returns(t) == pc[t] # "done" /\ pc'[t] = "done"

\* C32: in every call of a short-lived operation AcquireNode returns a node at most once,
\* ReleaseNode is called only after it has, the call returns right after its one
\* ReleaseNode call, and a call whose AcquireNode returned a node returns by no other way,
\* whatever status it returns; a call whose AcquireNode failed calls no ReleaseNode.
C32_OneReleasePerAcquire ==
    [][\A t \in Threads :
         loc[t].op \in ShortLivedOps
         => /\ AcquireReturnsNode(t) => loc[t].node = 0
            /\ ReleaseCalled(t) => (loc[t].node # 0 /\ Returns(t))
            /\ Returns(t) => (loc'[t].node # 0 <=> ReleaseCalled(t))]_vars

\* one call has returned an error status after its AcquireNode succeeded, another has
\* returned because its AcquireNode failed
C32_Witness ==
    \E t, u \in ApiThreads :
        /\ pc[t] = "done" /\ loc[t].op \in ShortLivedOps
        /\ loc[t].node # 0 /\ loc[t].stage \notin {"ok", "none"} /\ loc[t].ret < 0
        /\ pc[u] = "done" /\ loc[u].op \in ShortLivedOps
        /\ loc[u].node = 0 /\ loc[u].stage = "none"

\* ------------------------------------------------------------- C33
\* the cancellation token of the subscription of receiver r has fired
Cancelled(r) == r \in DOMAIN receivers /\ subInfos[receivers[r].subscription].cancelled

\* the messageReceiver task r has returned
Exited(r) == r \in DOMAIN receivers /\ receivers[r].pc = "exit"

\* C33: once the cancellation token of a subscription has fired, its messageReceiver
\* eventually returns, wherever in its loop it was; it enters subscription.Next only from
\* a select that found the context not done, and does nothing after it has returned.
C33_CancelledReceiverExits ==
    /\ \A r \in SubInfoIds : [](Cancelled(r) => <>Exited(r))
    /\ [][\A r \in DOMAIN receivers :
            /\ (receivers[r].pc = "loop" /\ Cancelled(r) /\ receivers'[r] # receivers[r])
               => receivers'[r].pc = "exit"
            /\ (receivers[r].pc # "next" /\ receivers'[r].pc = "next")
               => (receivers[r].pc = "loop" /\ ~Cancelled(r))
            /\ receivers[r].pc = "exit" => receivers'[r] = receivers[r]]_vars

\* two receivers whose token has fired: one in the back-off after the error of its
\* bounded receive, one that has returned from its loop
C33_Witness ==
    \E r1, r2 \in DOMAIN receivers :
        /\ Cancelled(r1) /\ receivers[r1].pc = "backoff"
        /\ Cancelled(r2) /\ Exited(r2) /\ receivers[r2].subInfo # 0

\* ------------------------------------------------------------- C34
\* the subscriptions a bulk close of thread t is about, before its loop
Matching(t) ==
    IF loc[t].op = "PubSubCloseAllSubscriptions" THEN DOMAIN subscriptions
    ELSE SubsOf(subscriptions, loc[t].path)

\* thread t runs the closing loop of a bulk close in this step
BulkCloses(t) == pc[t] \in {"closeRepo", "closeAll"} /\ pc'[t] = "bulkRelease"

\* C34: when Close returns an error for a subscription, PubSubUnsubscribe still removes
\* the entry, calls ReleaseNode once and returns 0; a bulk close still cancels, closes and
\* removes every matching subscription and makes its one ReleaseNode call per path; and
\* CleanupNode, when one of its stages has returned a negative status, still runs the
\* stages after it and the force-close before it returns.
C34_TeardownGoesOnAfterFailure ==
    /\ [](\A t \in Threads :
            pc[t] = "done"
            => /\ (loc[t].op = "PubSubUnsubscribe" /\ obs[t].closeErrs # {})
                  => /\ loc[t].ret = 0
                     /\ loc[t].subID \notin DOMAIN subscriptions
                     /\ subLog[loc[t].subInfo].released = 1
               /\ (/\ loc[t].op \in {"PubSubCloseRepoSubscriptions",
                                     "PubSubCloseAllSubscriptions"}
                   /\ obs[t].closeErrs # {})
                  => \A p \in Paths :
                        obs[t].released[p] = (IF obs[t].closed[p] > 0 THEN 1 ELSE 0)
               /\ (loc[t].op = "CleanupNode" /\ obs[t].failed # {})
                  => obs[t].stages = CleanupOrder)
    /\ [][\A t \in Threads :
            (BulkCloses(t) /\ obs'[t].closeErrs # {})
            => \A id \in Matching(t) :
                  /\ id \notin DOMAIN subscriptions'
                  /\ subInfos'[subscriptions[id].subInfo].cancelled
                  /\ subInfos'[subscriptions[id].subInfo].subscription.closed]_vars

\* a bulk close has returned after Close failed for one of the two subscriptions it closed
C34_Witness ==
    \E t \in ApiThreads : \E p \in Paths :
        /\ pc[t] = "done"
        /\ loc[t].op \in {"PubSubCloseRepoSubscriptions", "PubSubCloseAllSubscriptions"}
        /\ Cardinality(obs[t].closeErrs) = 1
        /\ obs[t].closed[p] = 2
        /\ obs[t].released[p] = 1

\* ------------------------------------------------------------- C35
\* entry e passes the filter of the P2PClose call with locals l: matchAll is set, or each
\* filter field that is not empty equals the field of e (the protocol filter is the name
\* as P2PClose has normalized it)
PassesFilter(e, l) ==
    \/ l.args.all
    \/ /\ l.proto # <<>> => e.Protocol = l.proto
       /\ l.args.listenAddr # "" => e.ListenAddress = l.args.listenAddr
       /\ l.args.targetAddr # "" => e.TargetAddress = l.args.targetAddr

\* table tbl after the P2PClose call with locals l, when the caller selected it or not
Remaining(tbl, l, selected) ==
    IF selected THEN SelectSeq(tbl, LAMBDA e : ~PassesFilter(e, l)) ELSE tbl

\* C35: the step in which P2PClose closes leaves in each selected table exactly the
\* entries that do not pass the filter, in their order, leaves an unselected table as it
\* is, and returns the number of entries gone from the two tables.
C35_CloseRemovesExactlyTheMatches ==
    [][\A t \in Threads :
         (pc[t] = "p2pClose" /\ pc'[t] # "p2pClose")
         => LET i == loc[t].node
                l == loc[t]
                exposures == Remaining(nodes[i].ListenersP2P, l, l.args.listeners)
                forwards == Remaining(nodes[i].ListenersLocal, l, l.args.forwarders) IN
            /\ nodes'[i].ListenersP2P = exposures
            /\ nodes'[i].ListenersLocal = forwards
            /\ loc'[t].ret = (Len(nodes[i].ListenersP2P) - Len(exposures))
                             + (Len(nodes[i].ListenersLocal) - Len(forwards))]_vars

\* a P2PClose call on both tables with a protocol and a target address has returned 1: it
\* closed the exposure, which matched both, and left the forward, which matched the
\* protocol only
C35_Witness ==
    \E t \in ApiThreads :
        /\ pc[t] = "done" /\ loc[t].op = "P2PClose" /\ loc[t].ret = 1
        /\ loc[t].args.listeners /\ loc[t].args.forwarders
        /\ loc[t].proto # <<>> /\ loc[t].args.targetAddr # ""
        /\ Registered(loc[t].path)
        /\ nodes[loc[t].node].ListenersP2P = <<>>
        /\ Len(nodes[loc[t].node].ListenersLocal) = 1

\* ------------------------------------------------------------- C36
\* the RunNode(p) calls that have returned 1
RunBorrows(p) ==
    Len(SelectSeq(opLog, LAMBDA e : e.op = "RunNode" /\ e.path = p /\ e.ret = 1))

\* C36: once RunNode(p) has returned 1, and with no CleanupNode call, p stays registered
\* with an open runtime and a RefCount of at least the number of successful RunNode(p)
\* calls, and no step of a short-lived operation, a subscribe, an unsubscribe or a bulk
\* close replaces the registered runtime instance.
C36_RunNodeBorrowIsKept ==
    /\ [](\A p \in Paths :
            RunBorrows(p) > 0
            => /\ Registered(p)
               /\ activeNodes[p].RefCount >= RunBorrows(p)
               /\ nodes[activeNodes[p].Node].closes = 0)
    /\ [][\A p \in Paths :
            RunBorrows(p) > 0 => activeNodes'[p].Node = activeNodes[p].Node]_vars

\* after a successful RunNode(p) a subscription on p was opened and a bulk close has
\* closed it and made its ReleaseNode call; the handle is left with RunNode's borrow
C36_Witness ==
    \E p \in Paths : \E t \in ApiThreads :
        /\ RunBorrows(p) = 1
        /\ pc[t] = "done"
        /\ loc[t].op \in {"PubSubCloseRepoSubscriptions", "PubSubCloseAllSubscriptions"}
        /\ obs[t].hadHandle /\ obs[t].refBefore = 2
        /\ obs[t].closed[p] = 1 /\ obs[t].released[p] = 1
        /\ Registered(p) /\ activeNodes[p].RefCount = 1

\* ------------------------------------------------------------- C37
\* thread t runs CleanupNode(p) alone, called with no handle registered for p, and no
\* subscription is owned by p
CleansNothing(t) ==
    /\ loc[t].op = "CleanupNode"
    /\ ~obs[t].hadHandle /\ obs[t].solo
    /\ SubsOf(subscriptions, loc[t].path) = {}

\* C37: a CleanupNode(p) call made with no handle registered for p and no subscription
\* owned by p constructs no runtime in any of its steps, and when it returns no handle
\* is registered for p.
C37_CleanupOfNothingConstructsNothing ==
    /\ [](\A t \in Threads : (CleansNothing(t) /\ pc[t] = "done") => ~Registered(loc[t].path))
    /\ [][\A t \in Threads : CleansNothing(t) => Len(nodes') = Len(nodes)]_vars

\* ------------------------------------------------------------- C38
\* thread t is between the return of its successful AcquireNode and its ReleaseNode call,
\* or the return of PubSubSubscribe that hands the borrow to the subscription
Borrowing(t) == pc[t] \notin {"idle", "acquire", "createNewNode", "done"} /\ loc[t].node # 0

\* C38: with no CleanupNode call, the runtime instance an operation has acquired stays
\* registered for its path and open until the operation releases it, and the path of
\* every registered subscription has a registered handle with an open runtime.
C38_NoCloseUnderBorrow ==
    /\ \A t \in Threads :
          Borrowing(t)
          => /\ Registered(loc[t].path)
             /\ activeNodes[loc[t].path].Node = loc[t].node
             /\ nodes[loc[t].node].closes = 0
    /\ \A id \in DOMAIN subscriptions :
          /\ Registered(subscriptions[id].repoPath)
          /\ nodes[activeNodes[subscriptions[id].repoPath].Node].closes = 0

\* a short-lived operation holds its borrow of p, alone, after a bulk close has closed the
\* subscription of p and made its ReleaseNode call: the runtime is open
C38_Witness ==
    \E t, u \in PubSubThreads :
        /\ Borrowing(t) /\ loc[t].op = "P2PEnable"
        /\ pc[u] = "done"
        /\ loc[u].op \in {"PubSubCloseRepoSubscriptions", "PubSubCloseAllSubscriptions"}
        /\ obs[u].released[loc[t].path] = 1
        /\ activeNodes[loc[t].path].RefCount = 1
        /\ nodes[loc[t].node].closes = 0

\* ------------------------------------------------------------- C39
\* thread t's go_src operation returns after it obtained a node from spawnNodeFunc
SpawnNodeOpReturns(t) ==
    /\ loc[t].op \in SpawnNodeOps
    /\ loc[t].node # 0
    /\ pc[t] # "done" /\ pc'[t] = "done"

\* C39: in go_src, where spawnNodeFunc is AcquireNode, the registry is the sole owner of
\* the runtimes: AddFile, GetFile and ConnectToPeer discharge their borrow through
\* ReleaseNode and never close the shared runtime themselves, so every handle registered
\* in activeNodes has an open runtime after any sequence of these operations.
C39_RegistryIsSoleOwner ==
    /\ [](activeNodesMutex = Unlocked
          => \A p \in DOMAIN activeNodes : nodes[activeNodes[p].Node].closes = 0)
    /\ [][\A t \in Threads :
            SpawnNodeOpReturns(t)
            => LET r == ReleaseNode(activeNodes, nodes, loc[t].path) IN
               /\ activeNodes' = r.activeNodes
               /\ nodes' = r.nodes]_vars

====
